---- MODULE Spec2Model ----
(***************************************************************************)
(* Flow manager backend: the execution engine (app/core/flow_engine.py),   *)
(* the condition evaluator (app/core/condition_evaluator.py), the flow     *)
(* definition (app/models/flow.py), the execution records                  *)
(* (app/models/execution.py) and the task wrapper (app/tasks/base_task.py).*)
(*                                                                         *)
(* One behaviour of Spec is one call of FlowEngine.execute_flow.  Every    *)
(* action runs a piece of the handler up to and including its              *)
(* db.session.commit(); a commit either succeeds or raises, and the model  *)
(* keeps the attribute values the code assigned to the in-memory objects. *)
(* Python's None is the string "None"; an optional mapping is a sequence   *)
(* of length 0 (None) or 1 (the mapping).                                  *)
(***************************************************************************)
EXTENDS Integers, Sequences, FiniteSets, TLC

VARIABLES
    flow,               \* the Flow handed to execute_flow
    task_registry,      \* TaskRegistry._tasks: the registered task names
    input_context,      \* the caller's input_context argument
    pc,                 \* position inside execute_flow / _execute_task
    flow_execution,     \* the FlowExecution object
    task_executions,    \* the TaskExecution objects, in creation order
    context,            \* local: the accumulated context
    current_task_name,  \* local
    sequence_number,    \* local
    task_result,        \* local
    condition,          \* local: conditions[0]
    next_task_name,     \* local
    exception,          \* message of the exception caught or propagating
    execute_outcome,    \* what the capability's execute did in the task step
                        \* whose result is being returned to the loop
    stored_flows,       \* the flows table: flow id -> Flow
    _tasks,             \* TaskRegistry._tasks: task name -> capability
    flow_executions_table,  \* the flow_executions table: id -> row
    task_executions_table,  \* the task_executions table: id -> row
    requests,           \* the execute requests in progress: their locals
    call_pc,            \* position of a direct call of a pure function
    call_args,          \* its arguments
    call_ret            \* its return value

engine_vars == <<flow, task_registry, input_context, pc, flow_execution,
                 task_executions, context, current_task_name, sequence_number,
                 task_result, condition, next_task_name, exception,
                 execute_outcome>>

call_vars == <<call_pc, call_args, call_ret>>

store_vars == <<stored_flows>>

registry_vars == <<_tasks>>

db_vars == <<flow_executions_table, task_executions_table, requests>>

\* what the engine leaves alone
other_vars == <<call_vars, store_vars, registry_vars, db_vars>>

vars == <<engine_vars, call_vars, store_vars, registry_vars, db_vars>>

----------------------------------------------------------------------------
(* Bounds of the model *)

\* the loop of execute_flow is followed for at most MaxSteps task steps
MaxSteps == 3

----------------------------------------------------------------------------
(* Values *)

None == "None"

PENDING == "pending"

RUNNING == "running"

SUCCESS == "success"

FAILURE == "failure"

COMPLETED == "completed"

\* datetime.utcnow(): only "set" against None is observed
UtcNow == "utcnow"

\* str(e) of an exception raised by db.session.commit()
DbError == "commit failed"

Outcomes == {"success", "failure", "any"}

EmptyCtx == [k \in {} |-> None]

NoResult == [status |-> None, error |-> None, data |-> None]

NoCondition ==
    [source_task |-> None, outcome |-> None,
     target_task_success |-> None, target_task_failure |-> None]

\* an assignment that drops the other items
DictSet_replace(d, k, v) == [x \in {k} |-> v]

\* dict item assignment d[k] = v
DictSet(d, k, v) == [x \in (DOMAIN d) \cup {k} |-> IF x = k THEN v ELSE d[x]]

\* dict.get(key, default) on a record whose absent keys hold None
Get(value, default) == IF value = None THEN default ELSE value

----------------------------------------------------------------------------
(* app/models/flow.py *)

\* Flow.get_all_task_names: the names of the task list, in order
get_all_task_names(f) == f.tasks

\* Flow.get_task_by_name: the first task with that name, or None
\* (a task definition is modelled by its name)
get_task_by_name(f, task_name) ==
    IF \E i \in 1..Len(f.tasks) : f.tasks[i] = task_name
    THEN task_name
    ELSE None

\* get_conditions_for_task that returns the matches last-declared first
RECURSIVE get_conditions_for_task_reversed(_, _)
get_conditions_for_task_reversed(f, task_name) ==
    IF f.conditions = <<>>
    THEN <<>>
    ELSE LET rest == get_conditions_for_task_reversed(
                        [f EXCEPT !.conditions = Tail(f.conditions)], task_name)
         IN  IF Head(f.conditions).source_task = task_name
             THEN Append(rest, Head(f.conditions))
             ELSE rest

\* Flow.get_conditions_for_task: the conditions whose source is the task,
\* in declaration order
get_conditions_for_task(f, task_name) ==
    SelectSeq(f.conditions, LAMBDA c : c.source_task = task_name)

\* validate_flow_structure without the check for duplicate task names
validate_flow_structure_errors_no_duplicates(f) ==
    LET task_names == get_all_task_names(f)
        names == {task_names[i] : i \in 1..Len(task_names)}
    IN  IF Len(f.tasks) = 0
        THEN {<<"no tasks", None>>}
        ELSE
          (IF f.start_task \notin names
           THEN {<<"start task not found", f.start_task>>} ELSE {})
          \cup
          {<<"source_task not found", f.conditions[i].source_task>> :
              i \in {j \in 1..Len(f.conditions) :
                        f.conditions[j].source_task \notin names}}
          \cup
          {<<"target_task_success not found",
             f.conditions[i].target_task_success>> :
              i \in {j \in 1..Len(f.conditions) :
                        /\ f.conditions[j].target_task_success # "end"
                        /\ f.conditions[j].target_task_success \notin names}}
          \cup
          {<<"target_task_failure not found",
             f.conditions[i].target_task_failure>> :
              i \in {j \in 1..Len(f.conditions) :
                        /\ f.conditions[j].target_task_failure # "end"
                        /\ f.conditions[j].target_task_failure \notin names}}

\* Flow.validate_flow_structure: the errors it collects, as a set of
\* <<kind, detail>>; the flow is valid when the set is empty
validate_flow_structure_errors(f) ==
    LET task_names == get_all_task_names(f)
        names == {task_names[i] : i \in 1..Len(task_names)}
    IN  IF Len(f.tasks) = 0
        THEN {<<"no tasks", None>>}
        ELSE
          (IF f.start_task \notin names
           THEN {<<"start task not found", f.start_task>>} ELSE {})
          \cup
          (IF Len(task_names) # Cardinality(names)
           THEN {<<"duplicate task names", None>>} ELSE {})
          \cup
          {<<"source_task not found", f.conditions[i].source_task>> :
              i \in {j \in 1..Len(f.conditions) :
                        f.conditions[j].source_task \notin names}}
          \cup
          {<<"target_task_success not found",
             f.conditions[i].target_task_success>> :
              i \in {j \in 1..Len(f.conditions) :
                        /\ f.conditions[j].target_task_success # "end"
                        /\ f.conditions[j].target_task_success \notin names}}
          \cup
          {<<"target_task_failure not found",
             f.conditions[i].target_task_failure>> :
              i \in {j \in 1..Len(f.conditions) :
                        /\ f.conditions[j].target_task_failure # "end"
                        /\ f.conditions[j].target_task_failure \notin names}}

validate_flow_structure(f) == validate_flow_structure_errors(f) = {}

----------------------------------------------------------------------------
(* app/core/condition_evaluator.py *)

\* _outcome_matches without the "any" case
_outcome_matches_strict(expected, actual) == expected = actual

\* ConditionEvaluator._outcome_matches
_outcome_matches(expected, actual) ==
    IF expected = "any" THEN TRUE ELSE expected = actual

\* evaluate with the two targets exchanged
evaluate_swapped(cond, result) ==
    LET expected_outcome == Get(cond.outcome, "success")
        actual_status == Get(result.status, "failure")
    IN  IF _outcome_matches(expected_outcome, actual_status)
        THEN Get(cond.target_task_failure, "end")
        ELSE Get(cond.target_task_success, "end")

\* ConditionEvaluator.evaluate
evaluate(cond, result) ==
    LET expected_outcome == Get(cond.outcome, "success")
        actual_status == Get(result.status, "failure")
    IN  IF _outcome_matches(expected_outcome, actual_status)
        THEN Get(cond.target_task_success, "end")
        ELSE Get(cond.target_task_failure, "end")

\* ConditionEvaluator.find_condition_for_task: the first condition of the
\* list whose source is the task, or NoCondition (None)
RECURSIVE find_condition_for_task(_, _)
find_condition_for_task(task_name, conditions) ==
    IF conditions = <<>>
    THEN NoCondition
    ELSE IF Head(conditions).source_task = task_name
         THEN Head(conditions)
         ELSE find_condition_for_task(task_name, Tail(conditions))

----------------------------------------------------------------------------
(* app/core/task_registry.py *)

\* get_task that falls back to a capability for every name
get_task_always_found(registry, task_name) == task_name

\* TaskRegistry.get_task: the registered capability (its name) or None
get_task(registry, task_name) ==
    IF task_name \in registry THEN task_name ELSE None

----------------------------------------------------------------------------
(* app/tasks/base_task.py *)

\* What a capability's execute(context) can do: return a result (the keys
\* it leaves out hold None) or raise.
ExecuteOutcomes ==
    { [raises |-> FALSE, status |-> "success", error |-> None, data |-> "data"],
      [raises |-> FALSE, status |-> None,      error |-> None, data |-> "data"],
      [raises |-> FALSE, status |-> "failure", error |-> "task error", data |-> None],
      [raises |-> FALSE, status |-> "failure", error |-> None, data |-> None],
      [raises |-> TRUE,  status |-> None,      error |-> "task raised", data |-> None] }

\* no capability has been invoked in the task step
NoOutcome == [raises |-> FALSE, status |-> None, error |-> None, data |-> None]

\* run without the default for a missing status
run_no_status_default(outcome) ==
    IF outcome.raises
    THEN [status |-> "failure", error |-> outcome.error, data |-> None]
    ELSE [status |-> outcome.status,
          error |-> outcome.error, data |-> outcome.data]

\* BaseTask.run: the wrapper around execute
run(outcome) ==
    IF outcome.raises
    THEN [status |-> "failure", error |-> outcome.error, data |-> None]
    ELSE [status |-> Get(outcome.status, "success"),
          error |-> outcome.error, data |-> outcome.data]

----------------------------------------------------------------------------
(* app/models/execution.py *)

\* FlowExecution.__init__ that stores no input context
FlowExecution_empty_input(in_ctx) ==
    [status |-> PENDING,
     input_context |-> EmptyCtx,
     output_data |-> <<>>,
     error_message |-> None,
     error_task |-> None,
     total_tasks_executed |-> 0,
     completed_at |-> None]

\* FlowExecution.__init__ (with the column defaults)
FlowExecution(in_ctx) ==
    [status |-> PENDING,
     input_context |-> in_ctx,
     output_data |-> <<>>,
     error_message |-> None,
     error_task |-> None,
     total_tasks_executed |-> 0,
     completed_at |-> None]

\* FlowExecution.mark_running
mark_running(fe) == [fe EXCEPT !.status = RUNNING]

\* mark_completed that uses the task-level verdict SUCCESS
mark_completed_as_success(fe, output_data) ==
    [fe EXCEPT !.status = SUCCESS,
               !.completed_at = UtcNow,
               !.output_data = <<output_data>>]

\* FlowExecution.mark_completed
mark_completed(fe, output_data) ==
    [fe EXCEPT !.status = COMPLETED,
               !.completed_at = UtcNow,
               !.output_data = <<output_data>>]

\* mark_failed that forgets the completion time
mark_failed_no_timestamp(fe, error_message, error_task) ==
    [fe EXCEPT !.status = FAILURE,
               !.error_message = error_message,
               !.error_task = error_task]

\* FlowExecution.mark_failed
mark_failed(fe, error_message, error_task) ==
    [fe EXCEPT !.status = FAILURE,
               !.completed_at = UtcNow,
               !.error_message = error_message,
               !.error_task = error_task]

\* TaskExecution.__init__
TaskExecution(task_name, seq, input_data) ==
    [task_name |-> task_name,
     sequence_number |-> seq,
     input_data |-> input_data,
     status |-> PENDING,
     output_data |-> None,
     error_message |-> None,
     error_traceback |-> None,
     completed_at |-> None]

\* TaskExecution.mark_running
task_mark_running(te) == [te EXCEPT !.status = RUNNING]

\* mark_success that uses the flow-level verdict COMPLETED
mark_success_as_completed(te, output_data) ==
    [te EXCEPT !.status = COMPLETED,
               !.completed_at = UtcNow,
               !.output_data = output_data]

\* TaskExecution.mark_success
mark_success(te, output_data) ==
    [te EXCEPT !.status = SUCCESS,
               !.completed_at = UtcNow,
               !.output_data = output_data]

\* TaskExecution.mark_failure
mark_failure(te, error_message, error_traceback) ==
    [te EXCEPT !.status = FAILURE,
               !.completed_at = UtcNow,
               !.error_message = error_message,
               !.error_traceback = error_traceback]

----------------------------------------------------------------------------
(* app/core/task_registry.py and FlowEngine.validate_flow_executable *)

\* task_exists that finds every name
task_exists_always(registry, task_name) == TRUE

\* TaskRegistry.task_exists
task_exists(registry, task_name) == task_name \in registry

\* validate_flow_executable that leaves out the structural errors
validate_flow_executable_errors_registry_only(f, registry) ==
    LET task_names == get_all_task_names(f) IN
      {<<"not found in task registry", task_names[i]>> :
          i \in {j \in 1..Len(task_names) :
                    ~task_exists(registry, task_names[j])}}

\* FlowEngine.validate_flow_executable: the errors it collects
validate_flow_executable_errors(f, registry) ==
    LET task_names == get_all_task_names(f) IN
      (IF ~validate_flow_structure(f)
       THEN validate_flow_structure_errors(f) ELSE {})
      \cup
      {<<"not found in task registry", task_names[i]>> :
          i \in {j \in 1..Len(task_names) :
                    ~task_exists(registry, task_names[j])}}

validate_flow_executable(f, registry) ==
    validate_flow_executable_errors(f, registry) = {}

----------------------------------------------------------------------------
(* Inputs of execute_flow *)

Condition(source, outcome, on_success, on_failure) ==
    [source_task |-> source, outcome |-> outcome,
     target_task_success |-> on_success, target_task_failure |-> on_failure]

FlowOf(start_task, tasks, conditions) ==
    [start_task |-> start_task, tasks |-> tasks, conditions |-> conditions]

\* Example A / B of the specification
ExampleFlow ==
    FlowOf("A", <<"A", "B">>, <<Condition("A", "success", "B", "end")>>)

\* The flows the engine is run on: tasks A and B with every single
\* condition on A, two conditions on A, a condition on A and one on B, flows
\* without conditions, flows with a task named "end", and flows that fail
\* structural validation.
Flows ==
    { FlowOf("A", <<"A", "B">>, <<Condition("A", o, ts, tf)>>) :
        o \in Outcomes, ts \in {"A", "B", "end"}, tf \in {"A", "B", "end"} }
    \cup
    { FlowOf("A", <<"A", "B">>,
             <<Condition("A", o1, "B", "end"), Condition("A", o2, "end", "B")>>) :
        o1 \in Outcomes, o2 \in Outcomes }
    \cup
    { FlowOf("A", <<"A", "B">>,
             <<Condition("A", "any", "B", "end"), Condition("B", o, ts, "end")>>) :
        o \in Outcomes, ts \in {"A", "end"} }
    \cup
    { FlowOf("A", <<"A">>, <<>>),
      FlowOf("B", <<"A", "B">>, <<>>),
      FlowOf("end", <<"end">>, <<>>),
      FlowOf("A", <<"A", "end">>, <<Condition("A", "any", "end", "end")>>),
      FlowOf("end", <<"end", "A">>, <<Condition("end", "any", "A", "A")>>),
      FlowOf("B", <<"A">>, <<>>),
      FlowOf("A", <<"A">>, <<Condition("A", "any", "B", "end")>>),
      FlowOf("A", <<"A", "A">>, <<>>) }

\* The registry contents the engine is run with
Registries == SUBSET {"A", "B", "end"}

\* A value of the caller's input context
InputValue == [status |-> None, error |-> None, data |-> "input"]

\* The input contexts: empty, and one whose key is also a task name
InputContexts == {EmptyCtx, [k \in {"A"} |-> InputValue]}

----------------------------------------------------------------------------
(* FlowEngine.execute_flow *)

\* the flows table is empty
NoFlows == [id \in {} |-> None]

\* the registry holds no capability
NoTasks == [name \in {} |-> None]

\* no execution is stored and no execute request is in progress
NoExecutions ==
    /\ flow_executions_table = [id \in {} |-> None]
    /\ task_executions_table = [id \in {} |-> None]
    /\ requests = [r \in {} |-> None]

NoCall == /\ call_pc = "none"
          /\ call_args = None
          /\ call_ret = None

\* execute_flow lines 43-46: the FlowExecution has been constructed
Init ==
    /\ flow \in Flows
    /\ task_registry \in Registries
    /\ input_context \in InputContexts
    /\ pc = "start"
    /\ flow_execution = FlowExecution(input_context)
    /\ task_executions = <<>>
    /\ context = EmptyCtx
    /\ current_task_name = None
    /\ sequence_number = 0
    /\ task_result = NoResult
    /\ condition = NoCondition
    /\ next_task_name = None
    /\ exception = None
    /\ execute_outcome = NoOutcome
    /\ NoCall
    /\ stored_flows = NoFlows
    /\ NoExecutions
    /\ _tasks = NoTasks

\* db.session.commit(): succeeds and control goes on at ok_pc, or raises
\* and control goes to fault_pc with the exception's message
Commit(ok_pc, fault_pc) ==
    \/ /\ pc' = ok_pc
       /\ exception' = exception
    \/ /\ pc' = fault_pc
       /\ exception' = DbError

\* lines 47-48: add and commit the new record (outside the try block)
CreateExecution ==
    /\ pc = "start"
    /\ Commit("created", "raised")
    /\ UNCHANGED <<execute_outcome, flow, task_registry, input_context,
                   flow_execution,
                   task_executions, context, current_task_name,
                   sequence_number, task_result, condition, next_task_name>>
    /\ UNCHANGED other_vars

\* lines 54-55
MarkRunning ==
    /\ pc = "created"
    /\ flow_execution' = mark_running(flow_execution)
    /\ Commit("running", "except")
    /\ UNCHANGED <<execute_outcome, flow, task_registry, input_context,
                   task_executions, context, current_task_name,
                   sequence_number, task_result, condition, next_task_name>>
    /\ UNCHANGED other_vars

\* InitLoop that starts from an empty context
InitLoop_empty_context ==
    /\ pc = "running"
    /\ context' = EmptyCtx
    /\ current_task_name' = flow.start_task
    /\ sequence_number' = 1
    /\ pc' = "while"
    /\ UNCHANGED <<execute_outcome, flow, task_registry, input_context,
                   flow_execution,
                   task_executions, task_result, condition, next_task_name,
                   exception>>
    /\ UNCHANGED other_vars

\* lines 58-62
InitLoop ==
    /\ pc = "running"
    /\ context' = input_context
    /\ current_task_name' = flow.start_task
    /\ sequence_number' = 1
    /\ pc' = "while"
    /\ UNCHANGED <<execute_outcome, flow, task_registry, input_context,
                   flow_execution,
                   task_executions, task_result, condition, next_task_name,
                   exception>>
    /\ UNCHANGED other_vars

\* WhileTest that enters the loop body for every name
WhileTest_no_stop ==
    /\ pc = "while"
    /\ pc' = "execute_task"
    /\ UNCHANGED <<execute_outcome, flow, task_registry, input_context,
                   flow_execution,
                   task_executions, context, current_task_name,
                   sequence_number, task_result, condition, next_task_name,
                   exception>>
    /\ UNCHANGED other_vars

\* line 64: the loop test
WhileTest ==
    /\ pc = "while"
    /\ pc' = IF current_task_name # "end" THEN "execute_task" ELSE "loop_exit"
    /\ UNCHANGED <<execute_outcome, flow, task_registry, input_context,
                   flow_execution,
                   task_executions, context, current_task_name,
                   sequence_number, task_result, condition, next_task_name,
                   exception>>
    /\ UNCHANGED other_vars

----------------------------------------------------------------------------
(* FlowEngine._execute_task *)

\* the TaskExecution of the task step in progress
CurrentTaskExecution == task_executions[Len(task_executions)]

SetCurrentTaskExecution(te) ==
    [task_executions EXCEPT ![Len(task_executions)] = te]

NotFoundInFlow(task_name) ==
    "Task '" \o task_name \o "' not found in flow definition"

NotFoundInRegistry(task_name) ==
    "Task '" \o task_name \o "' not found in task registry"

FailureResult(error_msg) ==
    [status |-> "failure", error |-> error_msg, data |-> None]

\* lines 155-185: resolve the task; return a failure result when it has no
\* definition or no capability, else create and commit its TaskExecution
ExecuteTask ==
    /\ pc = "execute_task"
    /\ LET task_def == get_task_by_name(flow, current_task_name)
           task == get_task(task_registry, current_task_name)
       IN  IF task_def = None
           THEN /\ task_result' = FailureResult(NotFoundInFlow(current_task_name))
                /\ pc' = "count"
                /\ UNCHANGED <<task_executions, exception>>
           ELSE IF task = None
           THEN /\ task_result' = FailureResult(NotFoundInRegistry(current_task_name))
                /\ pc' = "count"
                /\ UNCHANGED <<task_executions, exception>>
           ELSE /\ task_executions' =
                      Append(task_executions,
                             TaskExecution(current_task_name, sequence_number,
                                           context))
                /\ Commit("task_created", "except")
                /\ UNCHANGED task_result
    /\ UNCHANGED <<execute_outcome, flow, task_registry, input_context,
                   flow_execution,
                   context, current_task_name, sequence_number,
                   condition, next_task_name>>
    /\ UNCHANGED other_vars

\* lines 187-190
TaskMarkRunning ==
    /\ pc = "task_created"
    /\ task_executions' =
          SetCurrentTaskExecution(task_mark_running(CurrentTaskExecution))
    /\ Commit("task_running", "task_except")
    /\ UNCHANGED <<execute_outcome, flow, task_registry, input_context,
                   flow_execution,
                   context, current_task_name, sequence_number, task_result,
                   condition, next_task_name>>
    /\ UNCHANGED other_vars

\* lines 192-209: run the capability, store its result in the context,
\* finalize the TaskExecution, commit and return the result
TaskRun ==
    /\ pc = "task_running"
    /\ \E outcome \in ExecuteOutcomes :
          LET result == run(outcome) IN
            /\ execute_outcome' = outcome
            /\ context' = DictSet(context, current_task_name, result)
            /\ task_executions' = SetCurrentTaskExecution(
                  IF result.status = "success"
                  THEN mark_success(CurrentTaskExecution, result.data)
                  ELSE mark_failure(CurrentTaskExecution,
                                    Get(result.error,
                                        "Task failed without error message"),
                                    None))
            /\ \/ /\ pc' = "count"
                  /\ task_result' = result
                  /\ UNCHANGED exception
               \/ /\ pc' = "task_except"
                  /\ exception' = DbError
                  /\ UNCHANGED task_result
    /\ UNCHANGED <<flow, task_registry, input_context, flow_execution,
                   current_task_name, sequence_number, condition,
                   next_task_name>>
    /\ UNCHANGED other_vars

\* TaskExcept that returns the failure result without finalizing the record
TaskExcept_no_finalize ==
    /\ pc = "task_except"
    /\ \/ /\ pc' = "count"
          /\ task_result' = FailureResult(exception)
          /\ UNCHANGED exception
       \/ /\ pc' = "except"
          /\ exception' = DbError
          /\ UNCHANGED task_result
    /\ UNCHANGED <<execute_outcome, flow, task_registry, input_context,
                   flow_execution, task_executions,
                   context, current_task_name, sequence_number, condition,
                   next_task_name>>
    /\ UNCHANGED other_vars

\* lines 211-226: the except block of _execute_task
TaskExcept ==
    /\ pc = "task_except"
    /\ task_executions' = SetCurrentTaskExecution(
          mark_failure(CurrentTaskExecution, exception, "traceback"))
    /\ \/ /\ pc' = "count"
          /\ task_result' = FailureResult(exception)
          /\ UNCHANGED exception
       \/ /\ pc' = "except"
          /\ exception' = DbError
          /\ UNCHANGED task_result
    /\ UNCHANGED <<execute_outcome, flow, task_registry, input_context,
                   flow_execution,
                   context, current_task_name, sequence_number, condition,
                   next_task_name>>
    /\ UNCHANGED other_vars

----------------------------------------------------------------------------
(* FlowEngine.execute_flow, the rest of the loop body *)

\* UpdateCounter that counts from zero
UpdateCounter_zero_based ==
    /\ pc = "count"
    /\ flow_execution' =
          [flow_execution EXCEPT !.total_tasks_executed = sequence_number - 1]
    /\ execute_outcome' = NoOutcome
    /\ Commit("route", "except")
    /\ UNCHANGED <<flow, task_registry, input_context, task_executions,
                   context, current_task_name, sequence_number, task_result,
                   condition, next_task_name>>
    /\ UNCHANGED other_vars

\* lines 75-76
UpdateCounter ==
    /\ pc = "count"
    /\ flow_execution' =
          [flow_execution EXCEPT !.total_tasks_executed = sequence_number]
    /\ execute_outcome' = NoOutcome
    /\ Commit("route", "except")
    /\ UNCHANGED <<flow, task_registry, input_context, task_executions,
                   context, current_task_name, sequence_number, task_result,
                   condition, next_task_name>>
    /\ UNCHANGED other_vars

\* Finalize that fails the flow when any task of the run failed
Finalize_any_failure(fe, result, task_name, ctx, default_error) ==
    IF \E k \in DOMAIN ctx : ctx[k].status = "failure"
    THEN mark_failed(fe, Get(result.error, default_error), task_name)
    ELSE mark_completed(fe, ctx)

\* Finalize that leaves out the failing task's name
Finalize_no_task(fe, result, task_name, ctx, default_error) ==
    IF result.status = "failure"
    THEN mark_failed(fe, Get(result.error, default_error), None)
    ELSE mark_completed(fe, ctx)

\* lines 83-89 and 107-113: finalize from the last task result
Finalize(fe, result, task_name, ctx, default_error) ==
    IF result.status = "failure"
    THEN mark_failed(fe, Get(result.error, default_error), task_name)
    ELSE mark_completed(fe, ctx)

\* lines 79-91: no condition for the current task
FinishNoConditions ==
    /\ pc = "route"
    /\ get_conditions_for_task(flow, current_task_name) = <<>>
    /\ flow_execution' = Finalize(flow_execution, task_result,
                                  current_task_name, context, "Task failed")
    /\ Commit("loop_exit", "except")
    /\ UNCHANGED <<execute_outcome, flow, task_registry, input_context,
                   task_executions,
                   context, current_task_name, sequence_number, task_result,
                   condition, next_task_name>>
    /\ UNCHANGED other_vars

\* lines 79-115: the first condition routes to "end"
FinishAtEnd ==
    /\ pc = "route"
    /\ LET conditions == get_conditions_for_task(flow, current_task_name) IN
         /\ conditions # <<>>
         /\ condition' = conditions[1]
         /\ next_task_name' = evaluate(conditions[1], task_result)
    /\ next_task_name' = "end"
    /\ flow_execution' = Finalize(flow_execution, task_result,
                                  current_task_name, context,
                                  "Flow ended due to task failure")
    /\ Commit("loop_exit", "except")
    /\ UNCHANGED <<execute_outcome, flow, task_registry, input_context,
                   task_executions,
                   context, current_task_name, sequence_number, task_result>>
    /\ UNCHANGED other_vars

\* MoveToNext that skips a sequence number
MoveToNext_by_two ==
    /\ pc = "route"
    /\ sequence_number < MaxSteps
    /\ LET conditions == get_conditions_for_task(flow, current_task_name) IN
         /\ conditions # <<>>
         /\ condition' = conditions[1]
         /\ next_task_name' = evaluate(conditions[1], task_result)
    /\ next_task_name' # "end"
    /\ current_task_name' = next_task_name'
    /\ sequence_number' = sequence_number + 2
    /\ pc' = "while"
    /\ UNCHANGED <<execute_outcome, flow, task_registry, input_context,
                   flow_execution,
                   task_executions, context, task_result, exception>>
    /\ UNCHANGED other_vars

\* lines 79-119: the first condition routes to another task
MoveToNext ==
    /\ pc = "route"
    /\ sequence_number < MaxSteps
    /\ LET conditions == get_conditions_for_task(flow, current_task_name) IN
         /\ conditions # <<>>
         /\ condition' = conditions[1]
         /\ next_task_name' = evaluate(conditions[1], task_result)
    /\ next_task_name' # "end"
    /\ current_task_name' = next_task_name'
    /\ sequence_number' = sequence_number + 1
    /\ pc' = "while"
    /\ UNCHANGED <<execute_outcome, flow, task_registry, input_context,
                   flow_execution,
                   task_executions, context, task_result, exception>>
    /\ UNCHANGED other_vars

\* lines 121 and 131: leave the loop and return the FlowExecution
LoopExit ==
    /\ pc = "loop_exit"
    /\ pc' = "returned"
    /\ UNCHANGED <<execute_outcome, flow, task_registry, input_context,
                   flow_execution,
                   task_executions, context, current_task_name,
                   sequence_number, task_result, condition, next_task_name,
                   exception>>
    /\ UNCHANGED other_vars

\* Except that attributes the fault to the current task
Except_with_task ==
    /\ pc = "except"
    /\ flow_execution' =
          mark_failed(flow_execution, exception, current_task_name)
    /\ Commit("returned", "raised")
    /\ UNCHANGED <<execute_outcome, flow, task_registry, input_context,
                   task_executions,
                   context, current_task_name, sequence_number, task_result,
                   condition, next_task_name>>
    /\ UNCHANGED other_vars

\* lines 123-131: the except block of execute_flow; a fault of its commit
\* propagates to the caller
Except ==
    /\ pc = "except"
    /\ flow_execution' = mark_failed(flow_execution, exception, None)
    /\ Commit("returned", "raised")
    /\ UNCHANGED <<execute_outcome, flow, task_registry, input_context,
                   task_executions,
                   context, current_task_name, sequence_number, task_result,
                   condition, next_task_name>>
    /\ UNCHANGED other_vars

Next ==
    \/ CreateExecution
    \/ MarkRunning
    \/ InitLoop
    \/ WhileTest
    \/ ExecuteTask
    \/ TaskMarkRunning
    \/ TaskRun
    \/ TaskExcept
    \/ UpdateCounter
    \/ FinishNoConditions
    \/ FinishAtEnd
    \/ MoveToNext
    \/ LoopExit
    \/ Except

Spec == Init /\ [][Next]_vars

----------------------------------------------------------------------------
(* A direct call of ConditionEvaluator.evaluate *)

EvaluateArgs ==
    { [condition |-> Condition(s, o, ts, tf),
       task_result |-> [status |-> st, error |-> None, data |-> None]] :
        s \in {"A", "B"}, o \in Outcomes,
        ts \in {"A", "B", "end"}, tf \in {"A", "B", "end"},
        st \in {"success", "failure"} }

\* no execution is in progress
EngineIdle ==
    /\ flow = ExampleFlow
    /\ task_registry = {}
    /\ input_context = EmptyCtx
    /\ pc = "idle"
    /\ flow_execution = FlowExecution(EmptyCtx)
    /\ task_executions = <<>>
    /\ context = EmptyCtx
    /\ current_task_name = None
    /\ sequence_number = 0
    /\ task_result = NoResult
    /\ condition = NoCondition
    /\ next_task_name = None
    /\ exception = None
    /\ execute_outcome = NoOutcome

InitEvaluate ==
    /\ EngineIdle
    /\ stored_flows = NoFlows
    /\ NoExecutions
    /\ _tasks = NoTasks
    /\ call_pc = "call"
    /\ call_args \in EvaluateArgs
    /\ call_ret = None

\* evaluate(condition, task_result) returns; it assigns to neither argument
EvaluateCall ==
    /\ call_pc = "call"
    /\ call_ret' = evaluate(call_args.condition, call_args.task_result)
    /\ call_pc' = "done"
    /\ UNCHANGED call_args
    /\ UNCHANGED engine_vars
    /\ UNCHANGED store_vars
    /\ UNCHANGED registry_vars
    /\ UNCHANGED db_vars

NextEvaluate == EvaluateCall

SpecEvaluate == InitEvaluate /\ [][NextEvaluate]_vars

----------------------------------------------------------------------------
(* Calls of Flow.validate_flow_structure and of
   FlowEngine.validate_flow_executable *)

\* the task lists of the flows that are validated
ValidateTasks ==
    { <<>>, <<"A">>, <<"A", "B">>, <<"A", "A">>, <<"end">>, <<"A", "end">> }

\* the condition lists: none, or one condition for every choice of source
\* and targets
ValidateConditions ==
    { <<>> } \cup
    { <<Condition(s, "any", ts, tf)>> :
        s \in {"A", "B", "end"}, ts \in {"A", "B", "end"},
        tf \in {"A", "B", "end"} }

ValidateArgs ==
    { [flow |-> FlowOf(st, tasks, conds), registry |-> reg] :
        st \in {"A", "B", "end"}, tasks \in ValidateTasks,
        conds \in ValidateConditions, reg \in Registries }

InitValidate ==
    /\ EngineIdle
    /\ stored_flows = NoFlows
    /\ NoExecutions
    /\ _tasks = NoTasks
    /\ call_pc = "call"
    /\ call_args \in ValidateArgs
    /\ call_ret = None

\* flow.validate_flow_structure() returns (is_valid, errors)
ValidateStructureCall ==
    /\ call_pc = "call"
    /\ call_ret' = [ok |-> validate_flow_structure(call_args.flow),
                    errors |-> validate_flow_structure_errors(call_args.flow)]
    /\ call_pc' = "structure_done"
    /\ UNCHANGED call_args
    /\ UNCHANGED engine_vars
    /\ UNCHANGED store_vars
    /\ UNCHANGED registry_vars
    /\ UNCHANGED db_vars

\* engine.validate_flow_executable(flow) returns (is_valid, errors)
ValidateExecutableCall ==
    /\ call_pc = "call"
    /\ call_ret' =
          [ok |-> validate_flow_executable(call_args.flow, call_args.registry),
           errors |-> validate_flow_executable_errors(call_args.flow,
                                                      call_args.registry)]
    /\ call_pc' = "executable_done"
    /\ UNCHANGED call_args
    /\ UNCHANGED engine_vars
    /\ UNCHANGED store_vars
    /\ UNCHANGED registry_vars
    /\ UNCHANGED db_vars

NextValidate ==
    \/ ValidateStructureCall
    \/ ValidateExecutableCall

SpecValidate == InitValidate /\ [][NextValidate]_vars

----------------------------------------------------------------------------
(* app/models/schemas.py and create_flow of app/api/flows.py *)

\* FlowDefinitionSchema: the load raises a ValidationError when the task
\* list is empty or has duplicate names, else when the schema-level check
\* fails: start_task, then source and targets of every condition
schema_load_valid(f) ==
    LET names == {f.tasks[i] : i \in 1..Len(f.tasks)} IN
      /\ Len(f.tasks) >= 1
      /\ Len(f.tasks) = Cardinality(names)
      /\ f.start_task \in names
      /\ \A i \in 1..Len(f.conditions) :
            /\ f.conditions[i].source_task \in names
            /\ \/ f.conditions[i].target_task_success = "end"
               \/ f.conditions[i].target_task_success \in names
            /\ \/ f.conditions[i].target_task_failure = "end"
               \/ f.conditions[i].target_task_failure \in names

\* create_flow that stores without the executability check
create_flow_status_unvalidated(request, flows, registry) ==
    IF ~schema_load_valid(request.flow) THEN 400
    ELSE IF request.id \in DOMAIN flows THEN 409
    ELSE 201

\* create_flow lines 94-113: the status of the response before the flow is
\* added and committed
create_flow_status(request, flows, registry) ==
    IF ~schema_load_valid(request.flow) THEN 400
    ELSE IF request.id \in DOMAIN flows THEN 409
    ELSE IF ~validate_flow_executable(request.flow, registry) THEN 400
    ELSE 201

FlowIds == {"f1", "f2"}

\* the flows of the create requests
CreateFlows ==
    { FlowOf(st, tasks, conds) :
        st \in {"A", "B"},
        tasks \in { <<>>, <<"A">>, <<"A", "B">>, <<"A", "A">> },
        conds \in { <<>>,
                    <<Condition("A", "any", "B", "end")>>,
                    <<Condition("B", "any", "end", "A")>>,
                    <<Condition("end", "any", "A", "end")>> } }

CreateRequests == { [id |-> id, flow |-> f] : id \in FlowIds, f \in CreateFlows }

\* the registry of the application: both tasks, or A only
CreateRegistries == { {"A", "B"}, {"A"} }

InitCreateFlow ==
    /\ flow = ExampleFlow
    /\ task_registry \in CreateRegistries
    /\ input_context = EmptyCtx
    /\ pc = "idle"
    /\ flow_execution = FlowExecution(EmptyCtx)
    /\ task_executions = <<>>
    /\ context = EmptyCtx
    /\ current_task_name = None
    /\ sequence_number = 0
    /\ task_result = NoResult
    /\ condition = NoCondition
    /\ next_task_name = None
    /\ exception = None
    /\ execute_outcome = NoOutcome
    /\ stored_flows = NoFlows
    /\ NoExecutions
    /\ _tasks = NoTasks
    /\ NoCall

\* create_flow lines 94-138: one request; the commit of a validated flow
\* stores it (201) or raises (500, nothing stored)
CreateFlow ==
    /\ \E request \in CreateRequests :
          LET status == create_flow_status(request, stored_flows,
                                           task_registry)
          IN  /\ call_args' = request
              /\ IF status = 201
                 THEN \/ /\ stored_flows' =
                               DictSet(stored_flows, request.id, request.flow)
                         /\ call_ret' = [status |-> 201]
                      \/ /\ stored_flows' = stored_flows
                         /\ call_ret' = [status |-> 500]
                 ELSE /\ stored_flows' = stored_flows
                      /\ call_ret' = [status |-> status]
    /\ call_pc' = "create_done"
    /\ UNCHANGED engine_vars
    /\ UNCHANGED registry_vars
    /\ UNCHANGED db_vars

NextCreateFlow == CreateFlow

SpecCreateFlow == InitCreateFlow /\ [][NextCreateFlow]_vars

----------------------------------------------------------------------------
(* app/core/task_registry.py: the operations of the registry *)

RegistryNames == {"A", "B", "C"}

\* the BaseTask instances that are registered: two implementations a name
Capabilities ==
    { [name |-> n, description |-> d, is_base_task |-> TRUE] :
        n \in RegistryNames, d \in {"v1", "v2"} }

\* an object that is not a BaseTask
NotATask == [name |-> "A", description |-> "v1", is_base_task |-> FALSE]

\* the result None of a lookup
NoTask == [name |-> None, description |-> None, is_base_task |-> FALSE]

\* register_task that keeps the capability that has the name already
register_task_keep_first(tasks, task) ==
    IF task.name \in DOMAIN tasks THEN tasks ELSE DictSet(tasks, task.name, task)

\* register_task line 60: self._tasks[task.name] = task
register_task(tasks, task) == DictSet(tasks, task.name, task)

\* get_task line 73: self._tasks.get(task_name)
_tasks_get(tasks, task_name) ==
    IF task_name \in DOMAIN tasks THEN tasks[task_name] ELSE NoTask

\* list_tasks that reports the default tasks
list_tasks_defaults(tasks) == [name \in {"A", "B"} |-> "v1"]

\* list_tasks: name -> description of every registered task
list_tasks(tasks) == [name \in DOMAIN tasks |-> tasks[name].description]

\* unregister_task line 113: del self._tasks[task_name]
unregister_task(tasks, task_name) ==
    [name \in DOMAIN tasks \ {task_name} |-> tasks[name]]

get_task_count(tasks) == Cardinality(DOMAIN tasks)

\* _register_default_tasks: the registry after its construction
DefaultTasks ==
    register_task(
        register_task(NoTasks,
            [name |-> "A", description |-> "v1", is_base_task |-> TRUE]),
        [name |-> "B", description |-> "v1", is_base_task |-> TRUE])

InitRegistry ==
    /\ EngineIdle
    /\ stored_flows = NoFlows
    /\ NoExecutions
    /\ _tasks = DefaultTasks
    /\ NoCall

\* register_task(task): raises ValueError for an object that is not a
\* BaseTask, else stores the task under its name
RegisterTask ==
    /\ \E task \in Capabilities \cup {NotATask} :
          /\ call_args' = task
          /\ IF ~task.is_base_task
             THEN /\ call_ret' = "ValueError"
                  /\ UNCHANGED _tasks
             ELSE /\ call_ret' = None
                  /\ _tasks' = register_task(_tasks, task)
    /\ call_pc' = "register_task"
    /\ UNCHANGED <<engine_vars, store_vars, db_vars>>

GetTask ==
    /\ \E task_name \in RegistryNames :
          /\ call_args' = task_name
          /\ call_ret' = _tasks_get(_tasks, task_name)
    /\ call_pc' = "get_task"
    /\ UNCHANGED <<engine_vars, store_vars, registry_vars, db_vars>>

ListTasks ==
    /\ call_args' = None
    /\ call_ret' = list_tasks(_tasks)
    /\ call_pc' = "list_tasks"
    /\ UNCHANGED <<engine_vars, store_vars, registry_vars, db_vars>>

TaskExists ==
    /\ \E task_name \in RegistryNames :
          /\ call_args' = task_name
          /\ call_ret' = task_exists(DOMAIN _tasks, task_name)
    /\ call_pc' = "task_exists"
    /\ UNCHANGED <<engine_vars, store_vars, registry_vars, db_vars>>

\* unregister_task(task_name): True when the task was removed
UnregisterTask ==
    /\ \E task_name \in RegistryNames :
          /\ call_args' = task_name
          /\ IF task_name \in DOMAIN _tasks
             THEN /\ _tasks' = unregister_task(_tasks, task_name)
                  /\ call_ret' = TRUE
             ELSE /\ UNCHANGED _tasks
                  /\ call_ret' = FALSE
    /\ call_pc' = "unregister_task"
    /\ UNCHANGED <<engine_vars, store_vars, db_vars>>

ClearRegistry ==
    /\ call_args' = None
    /\ call_ret' = None
    /\ _tasks' = NoTasks
    /\ call_pc' = "clear_registry"
    /\ UNCHANGED <<engine_vars, store_vars, db_vars>>

GetTaskCount ==
    /\ call_args' = None
    /\ call_ret' = get_task_count(_tasks)
    /\ call_pc' = "get_task_count"
    /\ UNCHANGED <<engine_vars, store_vars, registry_vars, db_vars>>

NextRegistry ==
    \/ RegisterTask
    \/ GetTask
    \/ ListTasks
    \/ TaskExists
    \/ UnregisterTask
    \/ ClearRegistry
    \/ GetTaskCount

SpecRegistry == InitRegistry /\ [][NextRegistry]_vars

----------------------------------------------------------------------------
(* update_flow of app/api/flows.py *)

\* the largest version an update is followed to
MaxVersion == 3

\* a row of the flows table: Flow.__init__ and the column defaults
FlowRow(f, name, description) ==
    [start_task |-> f.start_task, tasks |-> f.tasks,
     conditions |-> f.conditions,
     name |-> name, description |-> description,
     is_active |-> 1, version |-> 1]

\* the bodies of the update requests; an absent field is <<>>, a present
\* one <<value>>; the empty name fails FlowUpdateRequestSchema
UpdateBodies ==
    { [name |-> n, description |-> d, is_active |-> a,
       start_task |-> def[1], tasks |-> def[2], conditions |-> def[3]] :
        n \in {<<>>, <<"new name">>, <<"">>},
        d \in {<<>>, <<"new description">>},
        a \in {<<>>, <<TRUE>>, <<FALSE>>},
        def \in { <<<<>>, <<>>, <<>>>>,
                  <<<<"B">>, <<<<"B">>>>, <<<<>>>>>> } }

\* FlowUpdateRequestSchema.load: the name has at least one character
update_schema_valid(body) ==
    body.name # <<>> => Len(body.name[1]) >= 1

\* update_flow that also takes start_task and tasks from the body
update_flow_with_definition(row, data) ==
    [row EXCEPT
       !.name = IF data.name # <<>> THEN data.name[1] ELSE @,
       !.start_task = IF data.start_task # <<>> THEN data.start_task[1] ELSE @,
       !.tasks = IF data.tasks # <<>> THEN data.tasks[1] ELSE @,
       !.version = @ + 1]

\* update_flow lines 314-321: the assignments to the loaded Flow
update_flow(row, data) ==
    [row EXCEPT
       !.name = IF data.name # <<>> THEN data.name[1] ELSE @,
       !.description =
          IF data.description # <<>> THEN data.description[1] ELSE @,
       !.is_active =
          IF data.is_active # <<>>
          THEN (IF data.is_active[1] THEN 1 ELSE 0) ELSE @,
       !.version = @ + 1]

InitUpdateFlow ==
    /\ EngineIdle
    /\ stored_flows =
          [id \in {"f1", "f2"} |->
             FlowRow(ExampleFlow, "name of " \o id, "description")]
    /\ _tasks = NoTasks
    /\ flow_executions_table = [id \in {} |-> None]
    /\ task_executions_table = [id \in {} |-> None]
    /\ requests = [r \in {} |-> None]
    /\ NoCall

\* update_flow lines 303-343: one request; 404 for an unknown id, 400 for
\* an invalid body, else the commit stores the changed row (200) or raises
\* (500, nothing stored)
UpdateFlow ==
    /\ \E flow_id \in {"f1", "f2", "f3"}, body \in UpdateBodies :
          /\ flow_id \in DOMAIN stored_flows =>
                stored_flows[flow_id].version < MaxVersion
          /\ call_args' = [flow_id |-> flow_id, body |-> body]
          /\ IF flow_id \notin DOMAIN stored_flows
             THEN /\ call_ret' = [status |-> 404]
                  /\ UNCHANGED stored_flows
             ELSE IF ~update_schema_valid(body)
             THEN /\ call_ret' = [status |-> 400]
                  /\ UNCHANGED stored_flows
             ELSE \/ /\ stored_flows' =
                           [stored_flows EXCEPT
                              ![flow_id] = update_flow(@, body)]
                     /\ call_ret' = [status |-> 200]
                  \/ /\ call_ret' = [status |-> 500]
                     /\ UNCHANGED stored_flows
    /\ call_pc' = "update_done"
    /\ UNCHANGED <<engine_vars, registry_vars, db_vars>>

NextUpdateFlow == UpdateFlow

SpecUpdateFlow == InitUpdateFlow /\ [][NextUpdateFlow]_vars

----------------------------------------------------------------------------
(* Execute requests against the store: execute_flow of app/api/tasks.py
   running FlowEngine.execute_flow for two requests at a time, delete_flow
   of app/api/flows.py, and a stop of the process. A step of a request is
   the code up to and including its next commit. A commit raises here only
   when a row it updates is gone; an insert whose parent row is gone is
   accepted (no foreign-key enforcement, the SQLite default of the
   configured database) or raises. *)

Requests == {"r1", "r2"}

\* the input_context of the requests
RequestInput(r) ==
    IF r = "r1" THEN EmptyCtx ELSE [k \in {"in"} |-> InputValue]

\* no task result yet / no TaskExecution object yet
NoTaskExecution ==
    [id |-> 0, flow_execution_id |-> 0, task_name |-> None,
     sequence_number |-> 0, input_data |-> EmptyCtx, status |-> None,
     output_data |-> None, error_message |-> None, error_traceback |-> None,
     completed_at |-> None]

\* FlowExecution.__init__ with the columns id and flow_id; id 0 until the
\* row is inserted
FlowExecutionRow(flow_id, in_ctx) ==
    [id |-> 0, flow_id |-> flow_id,
     status |-> PENDING,
     input_context |-> in_ctx,
     output_data |-> <<>>,
     error_message |-> None,
     error_task |-> None,
     total_tasks_executed |-> 0,
     completed_at |-> None]

\* TaskExecution.__init__ with the columns id and flow_execution_id
TaskExecutionRow(flow_execution_id, task_name, seq, input_data) ==
    [id |-> 0, flow_execution_id |-> flow_execution_id,
     task_name |-> task_name,
     sequence_number |-> seq,
     input_data |-> input_data,
     status |-> PENDING,
     output_data |-> None,
     error_message |-> None,
     error_traceback |-> None,
     completed_at |-> None]

\* an autoincrement key that is handed out for every insert
NextId_always_one(table) == 1

\* the autoincrement primary key of the next row
NextId(table) ==
    IF DOMAIN table = {} THEN 1
    ELSE 1 + (CHOOSE m \in DOMAIN table : \A n \in DOMAIN table : n <= m)

\* INSERT of the object; its id is assigned
InsertRow(table, obj) ==
    [id \in DOMAIN table \cup {NextId(table)} |->
        IF id = NextId(table) THEN [obj EXCEPT !.id = NextId(table)]
        ELSE table[id]]

\* UPDATE of the object's row
UpdateRow(table, obj) == [table EXCEPT ![obj.id] = obj]

\* the locals of an execute request that has not begun
IdleRequest(r) ==
    [pc |-> "idle",
     stopped |-> FALSE,
     flow |-> ExampleFlow,
     input_context |-> RequestInput(r),
     flow_execution |-> FlowExecutionRow(None, EmptyCtx),
     task_execution |-> NoTaskExecution,
     context |-> EmptyCtx,
     current_task_name |-> None,
     sequence_number |-> 0,
     task_result |-> NoResult,
     exception |-> None]

InitStore ==
    /\ EngineIdle
    /\ stored_flows \in
          {[id \in {"f1"} |-> FlowRow(ExampleFlow, "name", "description")],
           [id \in {"f1"} |->
               [FlowRow(ExampleFlow, "name", "description")
                   EXCEPT !.is_active = 0]]}
    /\ _tasks \in {DefaultTasks, unregister_task(DefaultTasks, "B")}
    /\ flow_executions_table = [id \in {} |-> None]
    /\ task_executions_table = [id \in {} |-> None]
    /\ requests = [r \in Requests |-> IdleRequest(r)]
    /\ NoCall

StoreFrame == UNCHANGED <<engine_vars, call_vars, registry_vars>>

\* RequestLoad that does not look at the active flag
RequestLoad_inactive_too(r) ==
    /\ requests[r].pc = "idle"
    /\ ~requests[r].stopped
    /\ IF "f1" \notin DOMAIN stored_flows
       THEN requests' = [requests EXCEPT ![r].pc = "not_found"]
       ELSE requests' =
              [requests EXCEPT
                 ![r].pc = "start",
                 ![r].flow = FlowOf(stored_flows["f1"].start_task,
                                    stored_flows["f1"].tasks,
                                    stored_flows["f1"].conditions),
                 ![r].flow_execution =
                    FlowExecutionRow("f1", requests[r].input_context)]
    /\ UNCHANGED <<stored_flows, flow_executions_table,
                   task_executions_table>>
    /\ StoreFrame

\* tasks.py lines 255-276 and flow_engine.py lines 43-46: load the flow,
\* answer 404 or 400, or construct the FlowExecution
RequestLoad(r) ==
    /\ requests[r].pc = "idle"
    /\ ~requests[r].stopped
    /\ IF "f1" \notin DOMAIN stored_flows
       THEN requests' = [requests EXCEPT ![r].pc = "not_found"]
       ELSE IF stored_flows["f1"].is_active = 0
       THEN requests' = [requests EXCEPT ![r].pc = "not_active"]
       ELSE requests' =
              [requests EXCEPT
                 ![r].pc = "start",
                 ![r].flow = FlowOf(stored_flows["f1"].start_task,
                                    stored_flows["f1"].tasks,
                                    stored_flows["f1"].conditions),
                 ![r].flow_execution =
                    FlowExecutionRow("f1", requests[r].input_context)]
    /\ UNCHANGED <<stored_flows, flow_executions_table,
                   task_executions_table>>
    /\ StoreFrame

\* flow_engine.py lines 47-48: insert and commit the FlowExecution
RequestCreateExecution(r) ==
    /\ requests[r].pc = "start"
    /\ ~requests[r].stopped
    /\ LET fe == requests[r].flow_execution IN
         \/ /\ flow_executions_table' = InsertRow(flow_executions_table, fe)
            /\ requests' =
                  [requests EXCEPT
                     ![r].pc = "created",
                     ![r].flow_execution =
                        [fe EXCEPT !.id = NextId(flow_executions_table)]]
         \/ /\ fe.flow_id \notin DOMAIN stored_flows
            /\ requests' = [requests EXCEPT ![r].pc = "raised",
                                            ![r].exception = DbError]
            /\ UNCHANGED flow_executions_table
    /\ UNCHANGED <<stored_flows, task_executions_table>>
    /\ StoreFrame

\* RequestMarkRunning that leaves the RUNNING transition to a later commit
RequestMarkRunning_not_committed(r) ==
    /\ requests[r].pc = "created"
    /\ ~requests[r].stopped
    /\ requests' =
          [requests EXCEPT
             ![r].flow_execution = mark_running(requests[r].flow_execution),
             ![r].context = requests[r].input_context,
             ![r].current_task_name = requests[r].flow.start_task,
             ![r].sequence_number = 1,
             ![r].pc = "execute_task"]
    /\ UNCHANGED <<stored_flows, flow_executions_table,
                   task_executions_table>>
    /\ StoreFrame

\* lines 54-62: mark running and commit, then set up the loop
RequestMarkRunning(r) ==
    /\ requests[r].pc = "created"
    /\ ~requests[r].stopped
    /\ LET fe == mark_running(requests[r].flow_execution) IN
         IF fe.id \in DOMAIN flow_executions_table
         THEN /\ flow_executions_table' = UpdateRow(flow_executions_table, fe)
              /\ requests' =
                    [requests EXCEPT
                       ![r].flow_execution = fe,
                       ![r].context = requests[r].input_context,
                       ![r].current_task_name = requests[r].flow.start_task,
                       ![r].sequence_number = 1,
                       ![r].pc = IF requests[r].flow.start_task # "end"
                                 THEN "execute_task" ELSE "returned"]
         ELSE /\ requests' = [requests EXCEPT ![r].flow_execution = fe,
                                              ![r].pc = "except",
                                              ![r].exception = DbError]
              /\ UNCHANGED flow_executions_table
    /\ UNCHANGED <<stored_flows, task_executions_table>>
    /\ StoreFrame

\* an engine that looks tasks up in a registry of its own
engine_registry_private(r) == DefaultTasks

\* FlowEngine.__init__ line 23: self.task_registry is the module's
\* task_registry, the one instance of TaskRegistry
engine_registry(r) == _tasks

\* _execute_task lines 155-185: resolve the task; a failure result when it
\* has no definition or no capability, else insert and commit its
\* TaskExecution under the id of this request's FlowExecution
RequestExecuteTask(r) ==
    /\ requests[r].pc = "execute_task"
    /\ ~requests[r].stopped
    /\ LET q == requests[r]
           task_def == get_task_by_name(q.flow, q.current_task_name)
           task == get_task(DOMAIN engine_registry(r), q.current_task_name)
           te == TaskExecutionRow(q.flow_execution.id, q.current_task_name,
                                  q.sequence_number, q.context)
       IN  IF task_def = None
           THEN /\ requests' =
                      [requests EXCEPT
                         ![r].task_result =
                            FailureResult(NotFoundInFlow(q.current_task_name)),
                         ![r].pc = "count"]
                /\ UNCHANGED task_executions_table
           ELSE IF task = None
           THEN /\ requests' =
                      [requests EXCEPT
                         ![r].task_result =
                            FailureResult(NotFoundInRegistry(q.current_task_name)),
                         ![r].pc = "count"]
                /\ UNCHANGED task_executions_table
           ELSE \/ /\ task_executions_table' =
                         InsertRow(task_executions_table, te)
                   /\ requests' =
                         [requests EXCEPT
                            ![r].task_execution =
                               [te EXCEPT !.id = NextId(task_executions_table)],
                            ![r].pc = "task_created"]
                \/ /\ q.flow_execution.id \notin DOMAIN flow_executions_table
                   /\ requests' = [requests EXCEPT ![r].pc = "except",
                                                   ![r].exception = DbError]
                   /\ UNCHANGED task_executions_table
    /\ UNCHANGED <<stored_flows, flow_executions_table>>
    /\ StoreFrame

\* _execute_task lines 187-190
RequestTaskMarkRunning(r) ==
    /\ requests[r].pc = "task_created"
    /\ ~requests[r].stopped
    /\ LET te == task_mark_running(requests[r].task_execution) IN
         IF te.id \in DOMAIN task_executions_table
         THEN /\ task_executions_table' = UpdateRow(task_executions_table, te)
              /\ requests' = [requests EXCEPT ![r].task_execution = te,
                                              ![r].pc = "task_running"]
         ELSE /\ requests' = [requests EXCEPT ![r].task_execution = te,
                                              ![r].pc = "task_except",
                                              ![r].exception = DbError]
              /\ UNCHANGED task_executions_table
    /\ UNCHANGED <<stored_flows, flow_executions_table>>
    /\ StoreFrame

\* _execute_task lines 192-209: run the capability, store its result in
\* the context, finalize the TaskExecution, commit, return the result
RequestTaskRun(r) ==
    /\ requests[r].pc = "task_running"
    /\ ~requests[r].stopped
    /\ \E outcome \in ExecuteOutcomes :
          LET q == requests[r]
              result == run(outcome)
              ctx == DictSet(q.context, q.current_task_name, result)
              te == IF result.status = "success"
                    THEN mark_success(q.task_execution, result.data)
                    ELSE mark_failure(q.task_execution,
                                      Get(result.error,
                                          "Task failed without error message"),
                                      None)
          IN  IF te.id \in DOMAIN task_executions_table
              THEN /\ task_executions_table' =
                         UpdateRow(task_executions_table, te)
                   /\ requests' = [requests EXCEPT ![r].task_execution = te,
                                                   ![r].context = ctx,
                                                   ![r].task_result = result,
                                                   ![r].pc = "count"]
              ELSE /\ requests' = [requests EXCEPT ![r].task_execution = te,
                                                   ![r].context = ctx,
                                                   ![r].pc = "task_except",
                                                   ![r].exception = DbError]
                   /\ UNCHANGED task_executions_table
    /\ UNCHANGED <<stored_flows, flow_executions_table>>
    /\ StoreFrame

\* _execute_task lines 211-226: the except block
RequestTaskExcept(r) ==
    /\ requests[r].pc = "task_except"
    /\ ~requests[r].stopped
    /\ LET q == requests[r]
           te == mark_failure(q.task_execution, q.exception, "traceback")
       IN  IF te.id \in DOMAIN task_executions_table
           THEN /\ task_executions_table' =
                      UpdateRow(task_executions_table, te)
                /\ requests' =
                      [requests EXCEPT
                         ![r].task_execution = te,
                         ![r].task_result = FailureResult(q.exception),
                         ![r].pc = "count"]
           ELSE /\ requests' = [requests EXCEPT ![r].task_execution = te,
                                                ![r].pc = "except",
                                                ![r].exception = DbError]
                /\ UNCHANGED task_executions_table
    /\ UNCHANGED <<stored_flows, flow_executions_table>>
    /\ StoreFrame

\* the commit of a changed FlowExecution: its row is updated, or the commit
\* raises because the row is gone
CommitExecution(r, fe, ok, fault) ==
    IF fe.id \in DOMAIN flow_executions_table
    THEN /\ flow_executions_table' = UpdateRow(flow_executions_table, fe)
         /\ requests' = [ok EXCEPT ![r].flow_execution = fe]
    ELSE /\ requests' = [fault EXCEPT ![r].flow_execution = fe,
                                      ![r].exception = DbError]
         /\ UNCHANGED flow_executions_table

\* execute_flow lines 75-76
RequestUpdateCounter(r) ==
    /\ requests[r].pc = "count"
    /\ ~requests[r].stopped
    /\ CommitExecution(r,
          [requests[r].flow_execution EXCEPT
              !.total_tasks_executed = requests[r].sequence_number],
          [requests EXCEPT ![r].pc = "route"],
          [requests EXCEPT ![r].pc = "except"])
    /\ UNCHANGED <<stored_flows, task_executions_table>>
    /\ StoreFrame

\* execute_flow lines 79-119: finalize when the task has no condition or
\* its first condition routes to "end", else move to the next task
RequestRoute(r) ==
    /\ requests[r].pc = "route"
    /\ ~requests[r].stopped
    /\ LET q == requests[r]
           conditions == get_conditions_for_task(q.flow, q.current_task_name)
       IN  IF conditions = <<>>
           THEN /\ CommitExecution(r,
                      Finalize(q.flow_execution, q.task_result,
                               q.current_task_name, q.context, "Task failed"),
                      [requests EXCEPT ![r].pc = "returned"],
                      [requests EXCEPT ![r].pc = "except"])
           ELSE IF evaluate(conditions[1], q.task_result) = "end"
           THEN /\ CommitExecution(r,
                      Finalize(q.flow_execution, q.task_result,
                               q.current_task_name, q.context,
                               "Flow ended due to task failure"),
                      [requests EXCEPT ![r].pc = "returned"],
                      [requests EXCEPT ![r].pc = "except"])
           ELSE /\ q.sequence_number < MaxSteps
                /\ requests' =
                      [requests EXCEPT
                         ![r].current_task_name =
                            evaluate(conditions[1], q.task_result),
                         ![r].sequence_number = q.sequence_number + 1,
                         ![r].pc = "execute_task"]
                /\ UNCHANGED flow_executions_table
    /\ UNCHANGED <<stored_flows, task_executions_table>>
    /\ StoreFrame

\* execute_flow lines 123-131: the except block; a fault of its commit
\* propagates to the handler
RequestExcept(r) ==
    /\ requests[r].pc = "except"
    /\ ~requests[r].stopped
    /\ CommitExecution(r,
          mark_failed(requests[r].flow_execution, requests[r].exception, None),
          [requests EXCEPT ![r].pc = "returned"],
          [requests EXCEPT ![r].pc = "raised"])
    /\ UNCHANGED <<stored_flows, task_executions_table>>
    /\ StoreFrame

\* execute_flow lines 61 and 79, _execute_task line 155: the flow object
\* is read after a commit; when its row is gone the read uses the values
\* loaded before or raises
RequestStaleRead(r) ==
    /\ requests[r].pc \in {"execute_task", "route"}
    /\ ~requests[r].stopped
    /\ "f1" \notin DOMAIN stored_flows
    /\ requests' = [requests EXCEPT ![r].pc = "except",
                                    ![r].exception = "row deleted"]
    /\ UNCHANGED <<stored_flows, flow_executions_table,
                   task_executions_table>>
    /\ StoreFrame

\* the ids of the FlowExecution rows of a flow
ExecutionsOf(flow_id) ==
    {id \in DOMAIN flow_executions_table :
        flow_executions_table[id].flow_id = flow_id}

\* delete_flow of app/api/flows.py: the flow goes with its executions and
\* their task executions (the cascade of the relationships)
DeleteFlow ==
    /\ "f1" \in DOMAIN stored_flows
    /\ stored_flows' = [id \in DOMAIN stored_flows \ {"f1"} |-> stored_flows[id]]
    /\ flow_executions_table' =
          [id \in DOMAIN flow_executions_table \ ExecutionsOf("f1") |->
              flow_executions_table[id]]
    /\ task_executions_table' =
          [id \in {t \in DOMAIN task_executions_table :
                      task_executions_table[t].flow_execution_id
                         \notin ExecutionsOf("f1")} |->
              task_executions_table[id]]
    /\ UNCHANGED requests
    /\ StoreFrame

\* the positions of a request at which execute_flow is in progress
InFlight ==
    {"start", "created", "execute_task", "task_created", "task_running",
     "task_except", "count", "route", "except"}

\* the process stops: every request in progress is abandoned where it is
Crash ==
    /\ \E r \in Requests : requests[r].pc \in InFlight /\ ~requests[r].stopped
    /\ requests' =
          [r \in Requests |->
              IF requests[r].pc \in InFlight
              THEN [requests[r] EXCEPT !.stopped = TRUE]
              ELSE requests[r]]
    /\ UNCHANGED <<stored_flows, flow_executions_table,
                   task_executions_table>>
    /\ StoreFrame

NextStore ==
    \/ \E r \in Requests :
          \/ RequestLoad(r)
          \/ RequestCreateExecution(r)
          \/ RequestMarkRunning(r)
          \/ RequestExecuteTask(r)
          \/ RequestTaskMarkRunning(r)
          \/ RequestTaskRun(r)
          \/ RequestTaskExcept(r)
          \/ RequestUpdateCounter(r)
          \/ RequestRoute(r)
          \/ RequestExcept(r)
          \/ RequestStaleRead(r)
    \/ DeleteFlow
    \/ Crash

SpecStore == InitStore /\ [][NextStore]_vars

----------------------------------------------------------------------------
(* Properties *)

Terminal == {COMPLETED, FAILURE}

\* the index of the first condition, in declaration order, whose source is
\* the task; 0 when there is none
FirstConditionIndex(f, task_name) ==
    LET matching == {i \in 1..Len(f.conditions) :
                        f.conditions[i].source_task = task_name}
    IN  IF matching = {} THEN 0
        ELSE CHOOSE i \in matching : \A j \in matching : i <= j

\* the routing rule of the specification, section 4.2
Routed(cond, result) ==
    IF cond.outcome = "any" \/ cond.outcome = result.status
    THEN cond.target_task_success
    ELSE cond.target_task_failure

\* C1: the status of the FlowExecution only changes pending -> running and
\* running -> completed or failure, and once it is completed or failure no
\* later step changes it, also when a commit faults.
C1_StatusOneShot ==
    [][ /\ flow_execution'.status # flow_execution.status =>
             \/ /\ flow_execution.status = PENDING
                /\ flow_execution'.status = RUNNING
             \/ /\ flow_execution.status = RUNNING
                /\ flow_execution'.status \in Terminal
        /\ flow_execution.status \in Terminal =>
             flow_execution'.status = flow_execution.status ]_vars

\* C2: when execute_flow returns for a structurally valid flow, the
\* FlowExecution is finalized: status completed or failure, completed_at set.
C2_ReturnedIsFinalized ==
    (pc = "returned" /\ validate_flow_structure(flow)) =>
        /\ flow_execution.status \in Terminal
        /\ flow_execution.completed_at # None

\* C3: the sequence numbers of the TaskExecution records, in creation
\* order, are 1, 2, ..., N.
C3_SequenceNumbersOneToN ==
    \A i \in 1..Len(task_executions) :
        task_executions[i].sequence_number = i

\* C4: completed_at is set if and only if the status is completed or
\* failure.
C4_CompletedAtIffTerminal ==
    (flow_execution.completed_at # None) <=>
        (flow_execution.status \in Terminal)

C4_Witness ==
    /\ pc = "returned"
    /\ flow_execution.status = FAILURE
    /\ flow_execution.completed_at = UtcNow

\* the loop body ran and the loop has stopped (break at line 91 or 115)
LoopStopped ==
    /\ pc = "loop_exit"
    /\ flow_execution.total_tasks_executed > 0

\* C5 as stated: when the loop stops the FlowExecution is FAILURE with
\* error_message = the last result's error and error_task = the current
\* task if that result failed, otherwise COMPLETED with the context.
C5_FinalizedFromLastResult ==
    LoopStopped =>
        IF task_result.status = "failure"
        THEN /\ flow_execution.status = FAILURE
             /\ flow_execution.error_message = task_result.error
             /\ flow_execution.error_task = current_task_name
        ELSE /\ flow_execution.status = COMPLETED
             /\ flow_execution.output_data = <<context>>

\* C5 amended: as C5, but a failure result without an error gives the
\* default message: "Task failed" when the task has no condition, "Flow
\* ended due to task failure" when its condition routed to "end".
C5_FinalizedFromLastResultOrDefault ==
    LoopStopped =>
        IF task_result.status = "failure"
        THEN /\ flow_execution.status = FAILURE
             /\ flow_execution.error_message =
                   IF task_result.error # None
                   THEN task_result.error
                   ELSE IF FirstConditionIndex(flow, current_task_name) = 0
                        THEN "Task failed"
                        ELSE "Flow ended due to task failure"
             /\ flow_execution.error_task = current_task_name
        ELSE /\ flow_execution.status = COMPLETED
             /\ flow_execution.output_data = <<context>>

\* the last task succeeded after an earlier task failed and was routed on
C5_Witness ==
    /\ LoopStopped
    /\ flow_execution.status = COMPLETED
    /\ \E k \in DOMAIN context :
          /\ k # current_task_name
          /\ context[k].status = "failure"

\* C6: evaluate returns target_task_success when the outcome is "any" or
\* equals the result's status and target_task_failure otherwise, and leaves
\* its arguments as they were.
C6_EvaluateContract ==
    /\ [](call_pc = "done" =>
            call_ret = Routed(call_args.condition, call_args.task_result))
    /\ [][call_args' = call_args]_vars

C6_Witness ==
    /\ call_pc = "done"
    /\ call_args.condition.outcome = "failure"
    /\ call_args.task_result.status = "success"
    /\ call_ret = call_args.condition.target_task_failure
    /\ call_ret # call_args.condition.target_task_success

\* C7: when the first condition of the task that just ran has outcome
\* "any", the routing step takes target_task_success: it finalizes when
\* that is "end" and otherwise makes it the current task of the next
\* iteration.
C7_AnyTakesSuccessTarget ==
    [][ LET i == FirstConditionIndex(flow, current_task_name) IN
        (pc = "route" /\ i # 0 /\ flow.conditions[i].outcome = "any") =>
            /\ next_task_name' = flow.conditions[i].target_task_success
            /\ IF flow.conditions[i].target_task_success = "end"
               THEN /\ flow_execution'.status \in Terminal
                    /\ pc' \in {"loop_exit", "except"}
                    /\ current_task_name' = current_task_name
               ELSE /\ current_task_name' =
                          flow.conditions[i].target_task_success
                    /\ sequence_number' = sequence_number + 1
                    /\ pc' = "while" ]_vars

\* a failed task was routed to the success target of an "any" condition
C7_Witness ==
    /\ pc = "execute_task"
    /\ condition.outcome = "any"
    /\ task_result.status = "failure"
    /\ condition.target_task_success # condition.target_task_failure
    /\ current_task_name = condition.target_task_success

\* C8: routing uses the first condition, in declaration order, whose source
\* is the task, and that is the condition find_condition_for_task returns.
C8_FirstConditionOnly ==
    [][ LET i == FirstConditionIndex(flow, current_task_name) IN
        (pc = "route" /\ i # 0) =>
            /\ condition' = flow.conditions[i]
            /\ condition' =
                  find_condition_for_task(current_task_name, flow.conditions)
            /\ next_task_name' = Routed(flow.conditions[i], task_result) ]_vars

\* two conditions share the source and the second would route elsewhere
C8_Witness ==
    /\ pc = "while"
    /\ Len(flow.conditions) = 2
    /\ condition = flow.conditions[1]
    /\ flow.conditions[2].source_task = condition.source_task
    /\ next_task_name = Routed(flow.conditions[1], task_result)
    /\ next_task_name # Routed(flow.conditions[2], task_result)

\* the run has returned without any commit having raised
ReturnedWithoutFault ==
    /\ pc = "returned"
    /\ exception = None

\* C9: a flow without a condition for its start task, whose start task
\* succeeds, ends COMPLETED with exactly one TaskExecution (sequence number
\* 1, status success) and total_tasks_executed = 1.  The run is one without
\* an engine fault (the fault path is section 4.3 step 4).
C9_SingleTaskCompletes ==
    ( /\ ReturnedWithoutFault
      /\ FirstConditionIndex(flow, flow.start_task) = 0
      /\ task_result.status = "success" ) =>
        /\ flow_execution.status = COMPLETED
        /\ Len(task_executions) = 1
        /\ task_executions[1].task_name = flow.start_task
        /\ task_executions[1].sequence_number = 1
        /\ task_executions[1].status = SUCCESS
        /\ flow_execution.total_tasks_executed = 1

C9_Witness ==
    /\ ReturnedWithoutFault
    /\ FirstConditionIndex(flow, flow.start_task) = 0
    /\ task_result.status = "success"
    /\ flow_execution.status = COMPLETED
    /\ Len(task_executions) = 1

\* task A of the example flow ran and succeeded
ExampleASucceeded ==
    /\ flow = ExampleFlow
    /\ exception = None
    /\ Len(task_executions) >= 1
    /\ task_executions[1].status = SUCCESS
    /\ flow_execution.total_tasks_executed >= 1

\* C10: in Example A, if A succeeds B runs next with sequence number 2, and
\* if B succeeds the execution ends COMPLETED with total_tasks_executed = 2
\* (a run without an engine fault).
C10_ExampleA ==
    /\ (ExampleASucceeded /\ pc # "route") =>
          /\ current_task_name = "B"
          /\ sequence_number = 2
          /\ Len(task_executions) = 2 =>
                /\ task_executions[2].task_name = "B"
                /\ task_executions[2].sequence_number = 2
    /\ (ExampleASucceeded /\ pc = "returned"
            /\ task_result.status = "success") =>
          /\ flow_execution.status = COMPLETED
          /\ flow_execution.total_tasks_executed = 2
          /\ Len(task_executions) = 2
          /\ task_executions[2].status = SUCCESS

C10_Witness ==
    /\ ExampleASucceeded
    /\ pc = "returned"
    /\ task_result.status = "success"
    /\ flow_execution.status = COMPLETED
    /\ flow_execution.total_tasks_executed = 2

\* task A of the example flow failed: it did not resolve, or its
\* TaskExecution was finalized FAILURE
ExampleAFailed ==
    /\ flow = ExampleFlow
    /\ exception = None
    /\ \/ "A" \notin task_registry
       \/ /\ Len(task_executions) >= 1
          /\ task_executions[1].status = FAILURE

\* in Example B task B is never run
ExampleBNeverRunsB ==
    ExampleAFailed =>
        /\ \A i \in 1..Len(task_executions) :
              task_executions[i].task_name # "B"
        /\ "B" \notin DOMAIN context
        /\ current_task_name \in {None, "A"}

\* C11 as stated: in Example B (A fails) B is never run and the execution
\* ends FAILURE with error_task = A, error_message = A's error and
\* total_tasks_executed = 1 (a run without an engine fault).
C11_ExampleB ==
    /\ ExampleBNeverRunsB
    /\ (ExampleAFailed /\ pc = "returned") =>
          /\ flow_execution.status = FAILURE
          /\ flow_execution.error_task = "A"
          /\ flow_execution.error_message = task_result.error
          /\ flow_execution.total_tasks_executed = 1

\* C11 amended: as C11, but when A's failure result carries no error the
\* error_message is the default "Flow ended due to task failure".
C11_ExampleBOrDefault ==
    /\ ExampleBNeverRunsB
    /\ (ExampleAFailed /\ pc = "returned") =>
          /\ flow_execution.status = FAILURE
          /\ flow_execution.error_task = "A"
          /\ flow_execution.error_message =
                IF task_result.error # None
                THEN task_result.error
                ELSE "Flow ended due to task failure"
          /\ flow_execution.total_tasks_executed = 1

C11_Witness ==
    /\ ExampleAFailed
    /\ pc = "returned"
    /\ "B" \in task_registry
    /\ Len(task_executions) = 1
    /\ task_result.error = "task error"
    /\ flow_execution.status = FAILURE
    /\ flow_execution.error_task = "A"
    /\ flow_execution.error_message = "task error"

\* the task has no definition in the flow
NotInFlow(task_name) ==
    \A i \in 1..Len(flow.tasks) : flow.tasks[i] # task_name

\* the default message of the finalization that ends the loop for the task
DefaultError(task_name) ==
    IF FirstConditionIndex(flow, task_name) = 0
    THEN "Task failed"
    ELSE "Flow ended due to task failure"

\* C12: a task without definition in the flow or without capability in the
\* registry gives a failure result with a not-found error, no TaskExecution,
\* no invocation and an unchanged context; the engine counts the step and
\* routes on the failure result as on any failure.
C12_UnresolvedTask ==
    [][ /\ ( /\ pc = "execute_task"
             /\ NotInFlow(current_task_name)
                   \/ current_task_name \notin task_registry ) =>
              /\ task_result'.status = "failure"
              /\ task_result'.error =
                    IF NotInFlow(current_task_name)
                    THEN NotFoundInFlow(current_task_name)
                    ELSE NotFoundInRegistry(current_task_name)
              /\ task_executions' = task_executions
              /\ context' = context
              /\ execute_outcome' = NoOutcome
              /\ exception' = exception
              /\ pc' = "count"
        /\ pc = "count" =>
              flow_execution'.total_tasks_executed = sequence_number
        /\ (pc = "route" /\ task_result.status = "failure") =>
              LET i == FirstConditionIndex(flow, current_task_name) IN
                IF i = 0 \/ Routed(flow.conditions[i], task_result) = "end"
                THEN /\ flow_execution'.status = FAILURE
                     /\ flow_execution'.error_task = current_task_name
                     /\ flow_execution'.error_message =
                           Get(task_result.error,
                               DefaultError(current_task_name))
                ELSE /\ current_task_name' =
                           Routed(flow.conditions[i], task_result)
                     /\ sequence_number' = sequence_number + 1
                     /\ flow_execution' = flow_execution ]_vars

\* a task missing from the flow definition ended the flow, or a task
\* missing from the registry was routed onward
C12_Witness ==
    \/ /\ pc = "loop_exit"
       /\ task_result.error = NotFoundInFlow(current_task_name)
       /\ flow_execution.status = FAILURE
       /\ flow_execution.error_task = current_task_name
       /\ flow_execution.total_tasks_executed = 2
       /\ Len(task_executions) = 1
    \/ /\ pc = "while"
       /\ task_result.error = NotFoundInRegistry("A")
       /\ current_task_name = "B"
       /\ flow_execution.total_tasks_executed = 1
       /\ task_executions = <<>>


\* C13: a fault raised inside execute stays inside the wrapper: the step
\* that invokes the task stores a failure result with the fault's message,
\* finalizes the TaskExecution FAILURE and hands that result to the routing
\* of the loop; a result without status is stored and recorded as success.
C13_TaskFaultContained ==
    [][ pc = "task_running" =>
          LET outcome == execute_outcome'
              result == context'[current_task_name]
              te == task_executions'[Len(task_executions')]
          IN  /\ outcome \in ExecuteOutcomes
              /\ outcome.raises =>
                    /\ result = FailureResult(outcome.error)
                    /\ te.status = FAILURE
                    /\ te.error_message = outcome.error
                    /\ te.completed_at # None
              /\ (~outcome.raises /\ outcome.status = None) =>
                    /\ result.status = "success"
                    /\ te.status = SUCCESS
              /\ pc' \in {"count", "task_except"}
              /\ pc' = "count" =>
                    /\ task_result' = result
                    /\ exception' = exception
              /\ pc' = "task_except" => exception' = DbError ]_vars

\* A raised in execute, and the loop routed on the failure result to B
C13_Witness ==
    /\ pc = "execute_task"
    /\ current_task_name = "B"
    /\ task_result = FailureResult("task raised")
    /\ Len(task_executions) = 1
    /\ task_executions[1].status = FAILURE
    /\ exception = None


\* C14: a fault that escapes the loop finalizes the FlowExecution as FAILURE
\* with the fault's message and without a task, and no task runs after it:
\* the step from the except block leaves the function, and the task records
\* and the context stay as they were.
C14_LoopFaultFinalizes ==
    [][ pc = "except" =>
          /\ exception # None
          /\ flow_execution'.status = FAILURE
          /\ flow_execution'.error_message = exception
          /\ flow_execution'.error_task = None
          /\ flow_execution'.completed_at # None
          /\ pc' \in {"returned", "raised"}
          /\ task_executions' = task_executions
          /\ context' = context
          /\ execute_outcome' = execute_outcome ]_vars

\* a commit raised after the first task had run, and the execution was
\* returned as a failure without a task
C14_Witness ==
    /\ pc = "returned"
    /\ exception = DbError
    /\ flow_execution.status = FAILURE
    /\ flow_execution.error_message = DbError
    /\ flow_execution.error_task = None
    /\ Len(task_executions) >= 1
    /\ current_task_name # None


\* C15: execute_flow never raises to its caller: whatever commit faults,
\* the run does not end with an exception leaving the function.
C15_NeverRaises == pc # "raised"


\* C16: the step that runs task T stores T's result under context[T] and
\* keeps every other entry; no other step of the loop changes the context,
\* so every later task receives it. The input_data of a TaskExecution is the
\* context of the moment the record is created for the invocation, and no
\* later step changes the input_data of a record.
C16_ContextAndSnapshots ==
    [][ /\ Len(task_executions') >= Len(task_executions)
        /\ \A i \in 1..Len(task_executions) :
              task_executions'[i].input_data = task_executions[i].input_data
        /\ Len(task_executions') > Len(task_executions) =>
              /\ Len(task_executions') = Len(task_executions) + 1
              /\ task_executions'[Len(task_executions')].input_data = context
              /\ context' = context
        /\ pc = "running" => context' = input_context
        /\ pc = "task_running" =>
              /\ DOMAIN context' = DOMAIN context \cup {current_task_name}
              /\ context'[current_task_name] = run(execute_outcome')
              /\ \A k \in DOMAIN context \ {current_task_name} :
                    context'[k] = context[k]
        /\ pc \notin {"running", "task_running"} => context' = context ]_vars

\* two tasks ran: the first got the input context, the second also the
\* first one's result, and the second one's result, written later, is in
\* the context but not in its own input_data
C16_Witness ==
    /\ Len(task_executions) = 2
    /\ task_executions[1].input_data = input_context
    /\ task_executions[1].task_name = "A"
    /\ task_executions[2].task_name = "B"
    /\ "A" \notin DOMAIN input_context
    /\ "A" \in DOMAIN task_executions[2].input_data
    /\ task_executions[2].input_data["A"] = context["A"]
    /\ "B" \notin DOMAIN task_executions[2].input_data
    /\ "B" \in DOMAIN context


\* C17: in every state of a FlowExecution, output_data is set only if the
\* status is completed, and error_message and error_task are set only if
\* the status is failure.
C17_FieldsMatchStatus ==
    /\ flow_execution.output_data # <<>> => flow_execution.status = COMPLETED
    /\ flow_execution.error_message # None => flow_execution.status = FAILURE
    /\ flow_execution.error_task # None => flow_execution.status = FAILURE


\* the names of the flow's task list
TaskNames(f) == {f.tasks[i] : i \in 1..Len(f.tasks)}

UniqueTaskNames(f) ==
    \A i, j \in 1..Len(f.tasks) : i # j => f.tasks[i] # f.tasks[j]

\* C18: validate_flow_structure returns ok exactly when the flow has at
\* least one task, start_task is a task name, the task names are unique and
\* source_task, target_task_success and target_task_failure of every
\* condition are "end" or a task name; ok holds iff the error list is empty.
C18_StructureOk ==
    call_pc = "structure_done" =>
      LET f == call_args.flow IN
        /\ call_ret.ok <=>
              /\ Len(f.tasks) >= 1
              /\ f.start_task \in TaskNames(f)
              /\ UniqueTaskNames(f)
              /\ \A i \in 1..Len(f.conditions) :
                    /\ f.conditions[i].source_task \in TaskNames(f) \cup {"end"}
                    /\ f.conditions[i].target_task_success
                          \in TaskNames(f) \cup {"end"}
                    /\ f.conditions[i].target_task_failure
                          \in TaskNames(f) \cup {"end"}
        /\ call_ret.ok <=> call_ret.errors = {}

\* C18 as the code has it: the source_task of a condition must be a task
\* name, "end" is accepted for the two targets only.
C18_StructureOkSourceIsTask ==
    call_pc = "structure_done" =>
      LET f == call_args.flow IN
        /\ call_ret.ok <=>
              /\ Len(f.tasks) >= 1
              /\ f.start_task \in TaskNames(f)
              /\ UniqueTaskNames(f)
              /\ \A i \in 1..Len(f.conditions) :
                    /\ f.conditions[i].source_task \in TaskNames(f)
                    /\ f.conditions[i].target_task_success
                          \in TaskNames(f) \cup {"end"}
                    /\ f.conditions[i].target_task_failure
                          \in TaskNames(f) \cup {"end"}
        /\ call_ret.ok <=> call_ret.errors = {}

\* a flow whose only defect is a condition with source_task "end" and a
\* target "end" was rejected for the source alone
C18_Witness ==
    /\ call_pc = "structure_done"
    /\ call_args.flow.tasks = <<"A", "B">>
    /\ call_args.flow.start_task = "A"
    /\ call_args.flow.conditions = <<Condition("end", "any", "B", "end")>>
    /\ ~call_ret.ok
    /\ call_ret.errors = {<<"source_task not found", "end">>}


\* C19: validate_flow_executable returns ok exactly when the flow is
\* structurally valid and every name of its task list is registered; a
\* structurally valid flow with an unregistered task is rejected with an
\* error that names the task; ok holds iff the error list is empty.
C19_ExecutableOk ==
    call_pc = "executable_done" =>
      LET f == call_args.flow
          registry == call_args.registry
          unregistered == TaskNames(f) \ registry
      IN  /\ call_ret.ok <=>
                (validate_flow_structure(f) /\ unregistered = {})
          /\ validate_flow_structure(f) =>
                call_ret.errors =
                   {<<"not found in task registry", n>> : n \in unregistered}
          /\ call_ret.ok <=> call_ret.errors = {}

\* a structurally valid flow with the unregistered task B was rejected
C19_Witness ==
    /\ call_pc = "executable_done"
    /\ call_args.flow =
          FlowOf("A", <<"A", "B">>, <<Condition("A", "any", "B", "end")>>)
    /\ validate_flow_structure(call_args.flow)
    /\ call_args.registry = {"A"}
    /\ ~call_ret.ok
    /\ call_ret.errors = {<<"not found in task registry", "B">>}


\* the flow passes the structural checks and all its tasks are registered
Acceptable(f, registry) ==
    /\ Len(f.tasks) >= 1
    /\ f.start_task \in TaskNames(f)
    /\ UniqueTaskNames(f)
    /\ \A i \in 1..Len(f.conditions) :
          /\ f.conditions[i].source_task \in TaskNames(f)
          /\ f.conditions[i].target_task_success \in TaskNames(f) \cup {"end"}
          /\ f.conditions[i].target_task_failure \in TaskNames(f) \cup {"end"}
    /\ TaskNames(f) \subseteq registry

\* C20: a create request stores the flow only when validation passes: a
\* flow whose start_task is not a task name, or that fails another
\* structural or executability check, or whose id exists, is rejected and
\* the stored flows stay as they are; every stored flow passed validation.
C20_StoredOnlyWhenValid ==
    /\ [][ LET request == call_args' IN
             /\ ( \/ ~Acceptable(request.flow, task_registry)
                  \/ request.id \in DOMAIN stored_flows ) =>
                   /\ stored_flows' = stored_flows
                   /\ call_ret'.status \in {400, 409}
             /\ stored_flows' # stored_flows =>
                   /\ call_ret'.status = 201
                   /\ stored_flows' =
                         [id \in DOMAIN stored_flows \cup {request.id} |->
                            IF id = request.id THEN request.flow
                            ELSE stored_flows[id]]
             /\ call_ret'.status = 201 =>
                   /\ request.id \in DOMAIN stored_flows'
                   /\ stored_flows'[request.id] = request.flow ]_vars
    /\ [](\A id \in DOMAIN stored_flows :
             Acceptable(stored_flows[id], task_registry))

\* with one flow stored, a request whose start_task B is not among its
\* tasks was rejected and the store still holds that one flow
C20_Witness ==
    /\ call_pc = "create_done"
    /\ call_args.flow.start_task = "B"
    /\ call_args.flow.tasks = <<"A">>
    /\ call_args.id = "f2"
    /\ call_ret.status = 400
    /\ DOMAIN stored_flows = {"f1"}


\* the TaskExecution is finalized
TaskTerminal(te) == te.status \in {SUCCESS, FAILURE}

\* C22: within one FlowExecution at most one TaskExecution is pending or
\* running at any time, and a TaskExecution is created only after the one
\* before it was finalized as success or failure.
C22_TasksNeverOverlap ==
    /\ [](\A i, j \in 1..Len(task_executions) :
             (~TaskTerminal(task_executions[i])
                /\ ~TaskTerminal(task_executions[j])) => i = j)
    /\ [][ Len(task_executions') > Len(task_executions) =>
             /\ \A i \in 1..Len(task_executions) :
                   TaskTerminal(task_executions[i])
             /\ task_executions'[Len(task_executions')].status = PENDING
       ]_vars

\* the second TaskExecution is running and the first one is finalized
C22_Witness ==
    /\ Len(task_executions) = 2
    /\ task_executions[2].status = RUNNING
    /\ TaskTerminal(task_executions[1])


\* C23: each TaskExecution goes pending -> running -> success or failure
\* and is finalized exactly once, and the step that runs the task finalizes
\* it SUCCESS with output_data = result.data exactly when the result's
\* status is "success" and FAILURE otherwise.
C23_TaskStatusOneShot ==
    [][ /\ \A i \in 1..Len(task_executions) :
              LET old == task_executions[i].status
                  new == task_executions'[i].status
              IN  \/ new = old
                  \/ old = PENDING /\ new = RUNNING
                  \/ old = RUNNING /\ new \in {SUCCESS, FAILURE}
        /\ pc = "task_running" =>
              LET result == context'[current_task_name]
                  te == task_executions'[Len(task_executions')]
              IN  IF result.status = "success"
                  THEN /\ te.status = SUCCESS
                       /\ te.output_data = result.data
                  ELSE te.status = FAILURE ]_vars


\* C24: total_tasks_executed starts at 0; the step after every task step
\* sets it to the current sequence number, which is one more than before;
\* no step decreases it; and when the loop finalizes the execution it is
\* the number of task steps of the loop, the sequence number of the last.
C24_TotalTasksExecuted ==
    /\ [](pc = "start" => flow_execution.total_tasks_executed = 0)
    /\ [][ /\ flow_execution'.total_tasks_executed
                 >= flow_execution.total_tasks_executed
           /\ pc = "count" =>
                 /\ flow_execution'.total_tasks_executed = sequence_number
                 /\ flow_execution'.total_tasks_executed
                       = flow_execution.total_tasks_executed + 1
           /\ pc # "count" =>
                 flow_execution'.total_tasks_executed
                    = flow_execution.total_tasks_executed
           /\ (pc = "route" /\ flow_execution'.status \in Terminal) =>
                 /\ flow_execution'.total_tasks_executed = sequence_number
                 /\ pc' \in {"loop_exit", "except"} ]_vars

\* the loop finalized the execution after three task steps
C24_Witness ==
    /\ pc = "returned"
    /\ exception = None
    /\ flow_execution.status \in Terminal
    /\ sequence_number = 3
    /\ flow_execution.total_tasks_executed = 3


\* C30: the verdict of the flow agrees with the last task record: a
\* FlowExecution finalized COMPLETED has a last TaskExecution with status
\* success, and one finalized FAILURE with error_task = T has a last
\* TaskExecution for task T with status failure.
C30_VerdictAgreesWithLastRecord ==
    LET n == Len(task_executions) IN
      /\ flow_execution.status = COMPLETED =>
            /\ n >= 1
            /\ task_executions[n].status = SUCCESS
      /\ (flow_execution.status = FAILURE
            /\ flow_execution.error_task # None) =>
            /\ n >= 1
            /\ task_executions[n].task_name = flow_execution.error_task
            /\ task_executions[n].status = FAILURE


C26_AbsenceIsNormal ==
    /\ [][ /\ call_pc' \in {"get_task", "task_exists", "list_tasks",
                            "get_task_count"} => _tasks' = _tasks
           /\ (call_pc' = "get_task" /\ call_args' \notin DOMAIN _tasks) =>
                 call_ret' = NoTask
           /\ (call_pc' = "task_exists" /\ call_args' \notin DOMAIN _tasks) =>
                 call_ret' = FALSE
           /\ (call_pc' = "unregister_task"
                 /\ call_args' \notin DOMAIN _tasks) =>
                 /\ call_ret' = FALSE
                 /\ _tasks' = _tasks ]_vars
    /\ [](\A name \in RegistryNames :
             /\ task_exists(DOMAIN _tasks, name)
                   <=> (_tasks_get(_tasks, name) # NoTask)
             /\ task_exists(DOMAIN _tasks, name)
                   <=> (name \in DOMAIN list_tasks(_tasks)))

\* after A was unregistered its lookup returned absent, while B is still
\* registered
C26_Witness ==
    /\ call_pc = "get_task"
    /\ call_args = "A"
    /\ call_ret = NoTask
    /\ "A" \notin DOMAIN _tasks
    /\ task_exists(DOMAIN _tasks, "B")


\* C27: a successful update changes at most name, description and active
\* flag of the flow, leaves its id, start_task, task list and condition
\* list as they were even when the body carries them, and increases the
\* version by exactly 1; a failed update changes nothing.
C27_UpdateFrame ==
    [][ call_pc' = "update_done" =>
          LET flow_id == call_args'.flow_id
              body == call_args'.body
          IN  /\ DOMAIN stored_flows' = DOMAIN stored_flows
              /\ \A id \in DOMAIN stored_flows \ {flow_id} :
                    stored_flows'[id] = stored_flows[id]
              /\ IF call_ret'.status = 200
                 THEN /\ flow_id \in DOMAIN stored_flows
                      /\ LET old == stored_flows[flow_id]
                             new == stored_flows'[flow_id]
                         IN  /\ new.start_task = old.start_task
                             /\ new.tasks = old.tasks
                             /\ new.conditions = old.conditions
                             /\ new.version = old.version + 1
                             /\ new.name =
                                   IF body.name = <<>> THEN old.name
                                   ELSE body.name[1]
                             /\ new.description =
                                   IF body.description = <<>>
                                   THEN old.description
                                   ELSE body.description[1]
                             /\ new.is_active \in {0, 1}
                             /\ body.is_active = <<>> =>
                                   new.is_active = old.is_active
                 ELSE stored_flows' = stored_flows
              /\ flow_id \notin DOMAIN stored_flows => call_ret'.status = 404
              /\ (body.name # <<>> /\ body.name[1] = "") =>
                    call_ret'.status \in {400, 404} ]_vars

\* an update that carried a new start_task and a new task list succeeded,
\* and the flow has its old definition with version 2
C27_Witness ==
    /\ call_pc = "update_done"
    /\ call_ret.status = 200
    /\ call_args.flow_id = "f1"
    /\ call_args.body.start_task = <<"B">>
    /\ call_args.body.tasks = <<<<"B">>>>
    /\ call_args.body.name = <<"new name">>
    /\ stored_flows["f1"].name = "new name"
    /\ stored_flows["f1"].start_task = "A"
    /\ stored_flows["f1"].tasks = <<"A", "B">>
    /\ stored_flows["f1"].version = 2


----------------------------------------------------------------------------
(* The registry shared by the engines: two execute requests in progress
   while tasks are registered, unregistered and cleared through the
   module's task_registry or through TaskRegistry(). *)

\* the names by which code reaches the registry
Handles == {"task_registry", "TaskRegistry()"}

\* TaskRegistry.__new__ and the module's instance: every handle is the one
\* instance, whose tasks are the class's _tasks
registry_of(h) == _tasks

\* the flow was validated against the default registry when it was created
InitShared ==
    /\ EngineIdle
    /\ stored_flows =
          [id \in {"f1"} |-> FlowRow(ExampleFlow, "name", "description")]
    /\ _tasks = DefaultTasks
    /\ flow_executions_table = [id \in {} |-> None]
    /\ task_executions_table = [id \in {} |-> None]
    /\ requests = [r \in Requests |-> IdleRequest(r)]
    /\ NoCall

SharedFrame ==
    UNCHANGED <<engine_vars, call_vars, store_vars, db_vars>>

\* register_task through a handle
SharedRegister(h) ==
    /\ \E name \in {"A", "B"} :
          _tasks' = register_task(registry_of(h),
                       [name |-> name, description |-> "v1",
                        is_base_task |-> TRUE])
    /\ _tasks' # _tasks
    /\ SharedFrame

\* unregister_task through a handle
SharedUnregister(h) ==
    /\ \E name \in {"A", "B"} :
          /\ name \in DOMAIN registry_of(h)
          /\ _tasks' = unregister_task(registry_of(h), name)
    /\ SharedFrame

\* clear_registry through a handle
SharedClear(h) ==
    /\ registry_of(h) # NoTasks
    /\ _tasks' = NoTasks
    /\ SharedFrame

NextShared ==
    \/ \E r \in Requests :
          \/ RequestLoad(r)
          \/ RequestCreateExecution(r)
          \/ RequestMarkRunning(r)
          \/ RequestExecuteTask(r)
          \/ RequestTaskMarkRunning(r)
          \/ RequestTaskRun(r)
          \/ RequestUpdateCounter(r)
          \/ RequestRoute(r)
    \/ \E h \in Handles :
          \/ SharedRegister(h)
          \/ SharedUnregister(h)
          \/ SharedClear(h)

SpecShared == InitShared /\ [][NextShared]_vars

\* the flow of the execute requests has not been deleted
FlowKept == "f1" \in DOMAIN stored_flows

\* the request has inserted its FlowExecution
HasExecution(r) == requests[r].flow_execution.id # 0

\* the stored TaskExecutions that reference the FlowExecution
TrailOf(id) ==
    {t \in DOMAIN task_executions_table :
        task_executions_table[t].flow_execution_id = id}

\* the positions of a request inside the loop of execute_flow, or after it
InLoop ==
    {"execute_task", "task_created", "task_running", "count", "route",
     "returned"}

\* what a run of execute_flow on its own establishes for its request
RunsAsAlone(r) ==
    LET q == requests[r]
        fe == q.flow_execution
        trail == TrailOf(fe.id)
        row(t) == task_executions_table[t]
        finalized == {row(t).task_name : t \in {u \in trail : TaskTerminal(row(u))}}
    IN  /\ fe.id \in DOMAIN flow_executions_table
        /\ flow_executions_table[fe.id] = fe
        /\ fe.input_context = q.input_context
        /\ {row(t).sequence_number : t \in trail} = 1..Cardinality(trail)
        /\ \A t \in trail :
              /\ row(t).sequence_number <= q.sequence_number
              /\ row(t).sequence_number = 1 =>
                    row(t).input_data = q.input_context
              /\ \A u \in trail : (~TaskTerminal(row(t)) /\ ~TaskTerminal(row(u)))
                                     => t = u
        /\ q.pc \in InLoop =>
              /\ DOMAIN q.context = DOMAIN q.input_context \cup finalized
              /\ \A k \in DOMAIN q.input_context :
                    q.context[k] = q.input_context[k]
              /\ \A t \in trail :
                    TaskTerminal(row(t)) =>
                       (row(t).status = SUCCESS
                          <=> q.context[row(t).task_name].status = "success")
        /\ q.pc \in {"route", "returned"} =>
              fe.total_tasks_executed = q.sequence_number
        /\ q.pc = "returned" =>
              /\ fe.status = IF q.task_result.status = "failure"
                             THEN FAILURE ELSE COMPLETED
              /\ fe.status = COMPLETED => fe.output_data = <<q.context>>
              /\ fe.status = FAILURE => fe.error_task = q.current_task_name
        /\ q.pc # "returned" => fe.status \in {PENDING, RUNNING}

\* a step of request r leaves the other request and its rows alone, and a
\* TaskExecution it inserts references r's FlowExecution
StepOwnsItsRows(r) ==
    LET id == requests'[r].flow_execution.id IN
      /\ \A s \in Requests \ {r} : requests'[s] = requests[s]
      /\ \A e \in DOMAIN flow_executions_table :
            e # id => /\ e \in DOMAIN flow_executions_table'
                      /\ flow_executions_table'[e] = flow_executions_table[e]
      /\ \A t \in DOMAIN task_executions_table :
            task_executions_table[t].flow_execution_id # id =>
               /\ t \in DOMAIN task_executions_table'
               /\ task_executions_table'[t] = task_executions_table[t]
      /\ \A t \in DOMAIN task_executions_table' \ DOMAIN task_executions_table :
            /\ task_executions_table'[t].flow_execution_id = id
            /\ task_executions_table'[t].input_data = requests[r].context

\* C21: two interleaved executions of the same flow have FlowExecutions
\* with distinct ids, every TaskExecution references the id of the
\* execution that inserted it, a step of one execution changes neither the
\* other's locals nor the other's rows, and each execution's context,
\* sequence numbers, total_tasks_executed and final status are those of a
\* run on its own.
C21_ExecutionsAreIndependent ==
    /\ [](FlowKept =>
            /\ \A r, s \in Requests :
                  (HasExecution(r) /\ HasExecution(s) /\ r # s) =>
                     requests[r].flow_execution.id
                        # requests[s].flow_execution.id
            /\ \A r \in Requests : HasExecution(r) => RunsAsAlone(r)
            /\ \A t \in DOMAIN task_executions_table :
                  \E r \in Requests :
                     /\ HasExecution(r)
                     /\ task_executions_table[t].flow_execution_id =
                           requests[r].flow_execution.id)
    /\ [][ \A r \in Requests :
             (FlowKept' /\ requests'[r].pc # requests[r].pc)
                => StepOwnsItsRows(r) ]_vars

\* both executions returned with the flow kept; their TaskExecutions were
\* inserted alternately, the first execution completed after two tasks and
\* the second failed at its first
C21_Witness ==
    /\ FlowKept
    /\ requests["r1"].pc = "returned" /\ requests["r2"].pc = "returned"
    /\ requests["r1"].flow_execution.status = COMPLETED
    /\ requests["r2"].flow_execution.status = FAILURE
    /\ DOMAIN task_executions_table = {1, 2, 3}
    /\ task_executions_table[1].flow_execution_id
          = requests["r1"].flow_execution.id
    /\ task_executions_table[2].flow_execution_id
          = requests["r2"].flow_execution.id
    /\ task_executions_table[3].flow_execution_id
          = requests["r1"].flow_execution.id


\* C28: every stored TaskExecution references a stored FlowExecution and
\* every stored FlowExecution a stored Flow, at all times: deleting a flow
\* deletes its FlowExecutions and their TaskExecutions with it.
C28_NoDanglingReference ==
    /\ \A t \in DOMAIN task_executions_table :
          task_executions_table[t].flow_execution_id
             \in DOMAIN flow_executions_table
    /\ \A e \in DOMAIN flow_executions_table :
          flow_executions_table[e].flow_id \in DOMAIN stored_flows


\* the request was abandoned between the commit of RUNNING and the commit
\* that finalizes its FlowExecution
StoppedMidRun(r) ==
    /\ requests[r].stopped
    /\ requests[r].pc \in {"execute_task", "task_created", "task_running",
                           "task_except", "count", "route"}

\* the stored TaskExecutions of the FlowExecution are what the run had
\* committed when it stopped: sequence numbers 1..k with only the last one
\* possibly not finalized, the last one being the run's current object
StoredTrailIsPrefix(r) ==
    LET q == requests[r]
        trail == TrailOf(q.flow_execution.id)
        row(t) == task_executions_table[t]
    IN  /\ {row(t).sequence_number : t \in trail} = 1..Cardinality(trail)
        /\ Cardinality(trail) <= q.sequence_number
        /\ \A t \in trail :
              /\ row(t).sequence_number < Cardinality(trail)
                    => TaskTerminal(row(t))
              /\ TaskTerminal(row(t)) =>
                    (row(t).status = SUCCESS
                       <=> q.context[row(t).task_name].status = "success")
        /\ q.pc \in {"task_created", "task_running"} =>
              /\ q.task_execution.id \in trail
              /\ row(q.task_execution.id) = q.task_execution
              /\ q.task_execution.sequence_number = q.sequence_number

\* C29: when the process stops between the committed RUNNING transition and
\* finalization, the stored FlowExecution has status running and no
\* completed_at, its stored TaskExecutions are a prefix of the run's trail,
\* and every later step of the system leaves that FlowExecution and its
\* TaskExecutions as they are or deletes them with their flow.
C29_StoppedRunStaysRunning ==
    /\ [](\A r \in Requests :
            (StoppedMidRun(r) /\ FlowKept) =>
               /\ requests[r].flow_execution.id \in DOMAIN flow_executions_table
               /\ flow_executions_table[requests[r].flow_execution.id].status
                     = RUNNING
               /\ flow_executions_table[requests[r].flow_execution.id].completed_at
                     = None
               /\ StoredTrailIsPrefix(r))
    /\ [][ \A r \in Requests :
             (StoppedMidRun(r) /\ FlowKept) =>
                LET id == requests[r].flow_execution.id IN
                  /\ requests'[r] = requests[r]
                  /\ \/ /\ id \in DOMAIN flow_executions_table'
                        /\ flow_executions_table'[id] = flow_executions_table[id]
                        /\ \A t \in TrailOf(id) :
                              /\ t \in DOMAIN task_executions_table'
                              /\ task_executions_table'[t]
                                    = task_executions_table[t]
                        /\ \A t \in DOMAIN task_executions_table' :
                              task_executions_table'[t].flow_execution_id = id
                                 => t \in TrailOf(id)
                     \/ /\ id \notin DOMAIN flow_executions_table'
                        /\ \A t \in DOMAIN task_executions_table' :
                              task_executions_table'[t].flow_execution_id # id
         ]_vars

\* the first request was abandoned while its second task was running; the
\* second request, idle at that time, ran to completion afterwards
C29_Witness ==
    /\ FlowKept
    /\ StoppedMidRun("r1")
    /\ requests["r1"].pc = "task_running"
    /\ requests["r1"].sequence_number = 2
    /\ flow_executions_table[requests["r1"].flow_execution.id].status = RUNNING
    /\ Cardinality(TrailOf(requests["r1"].flow_execution.id)) = 2
    /\ ~requests["r2"].stopped
    /\ requests["r2"].pc = "returned"
    /\ requests["r2"].flow_execution.status = COMPLETED
    /\ \A t \in TrailOf(requests["r2"].flow_execution.id) :
          \A u \in TrailOf(requests["r1"].flow_execution.id) : t > u


\* C33: "end" is only a stop signal: no step of _execute_task runs for the
\* name "end" and no TaskExecution has task_name "end", also when the flow
\* defines a task "end" and the registry holds one.
C33_EndIsNeverRun ==
    /\ pc \in {"execute_task", "task_created", "task_running", "task_except",
               "count", "route"} => current_task_name # "end"
    /\ \A i \in 1..Len(task_executions) :
          task_executions[i].task_name # "end"

\* the flow defines "end", the registry holds it, the first condition of A
\* routed to "end" and the run returned with the one TaskExecution of A
C33_Witness ==
    /\ pc = "returned"
    /\ "end" \in TaskNames(flow)
    /\ "end" \in task_registry
    /\ flow.start_task = "A"
    /\ next_task_name = "end"
    /\ Len(task_executions) = 1
    /\ task_executions[1].task_name = "A"
    /\ flow_execution.status = COMPLETED


\* C35: the input_context of the FlowExecution equals the caller's input
\* context in every state of the run; the results written into the working
\* context are not added to it.
C35_InputContextKept ==
    /\ flow_execution.input_context = input_context
    /\ pc \in {"while", "execute_task", "task_created", "task_running"}
          => \A k \in DOMAIN input_context : k \in DOMAIN context

\* the input context has an entry under the name of task A, the run
\* overwrote it in the working context and returned
C35_Witness ==
    /\ pc = "returned"
    /\ "A" \in DOMAIN input_context
    /\ "A" \in DOMAIN context
    /\ "B" \in DOMAIN context
    /\ context["A"] # input_context["A"]
    /\ flow_execution.input_context = input_context
    /\ flow_execution.status = COMPLETED


\* C39: no FlowExecution has status success and no TaskExecution has status
\* completed, in any state.
C39_DisjointVerdicts ==
    /\ flow_execution.status \in {PENDING, RUNNING, COMPLETED, FAILURE}
    /\ \A i \in 1..Len(task_executions) :
          task_executions[i].status \in {PENDING, RUNNING, SUCCESS, FAILURE}

\* a completed FlowExecution with a successful TaskExecution
C39_Witness ==
    /\ flow_execution.status = COMPLETED
    /\ Len(task_executions) = 2
    /\ task_executions[1].status = SUCCESS
    /\ task_executions[2].status = SUCCESS


\* C36: whenever the FlowExecution has a terminal status, every one of its
\* TaskExecutions has status success or failure and completed_at set.
C36_FinishedRunFinishedTasks ==
    flow_execution.status \in Terminal =>
       \A i \in 1..Len(task_executions) :
          /\ TaskTerminal(task_executions[i])
          /\ task_executions[i].completed_at # None


\* the flow passes validate_flow_executable with the registry of the run
Executable == validate_flow_executable(flow, task_registry)

\* C31: for a flow that passed validate_flow_executable, run with an
\* unchanged registry, every loop step creates exactly one TaskExecution:
\* after the task step there are as many records as the sequence number
\* says, numbered 1..N, and when the loop finalizes the execution
\* total_tasks_executed is the number of records and the highest
\* sequence number.
C31_OneRecordPerStep ==
    /\ []((Executable /\ pc \in {"count", "route"}) =>
            /\ Len(task_executions) = sequence_number
            /\ \A i \in 1..Len(task_executions) :
                  task_executions[i].sequence_number = i)
    /\ [][ (Executable /\ pc = "route" /\ flow_execution'.status \in Terminal)
             => /\ flow_execution'.total_tasks_executed = Len(task_executions')
                /\ flow_execution'.total_tasks_executed =
                      task_executions'[Len(task_executions')].sequence_number
         ]_vars
    /\ []((Executable /\ pc = "returned" /\ exception = None
             /\ flow_execution.status \in Terminal) =>
            /\ flow_execution.total_tasks_executed = Len(task_executions)
            /\ Len(task_executions) > 0
            /\ flow_execution.total_tasks_executed =
                  task_executions[Len(task_executions)].sequence_number)

\* an executable flow was finalized by the loop after three task steps
C31_Witness ==
    /\ Executable
    /\ pc = "returned"
    /\ exception = None
    /\ flow_execution.status \in Terminal
    /\ Len(task_executions) = 3
    /\ flow_execution.total_tasks_executed = 3


\* the routing graph of a flow: an edge from each task to the success
\* target and to the failure target of its first condition
RoutingEdges(f) ==
    UNION { LET conditions == get_conditions_for_task(f, t) IN
              IF conditions = <<>> THEN {}
              ELSE {<<t, conditions[1].target_task_success>>,
                    <<t, conditions[1].target_task_failure>>} :
            t \in TaskNames(f) }

\* the pairs joined by a path of one more edge than the paths of R
OneMore(R, E) ==
    R \cup {<<x[1][1], x[2][2]>> : x \in {y \in R \X E : y[1][2] = y[2][1]}}

\* the routing graph has no cycle (flows of at most four names)
Acyclic(f) ==
    LET E == RoutingEdges(f)
        paths == OneMore(OneMore(OneMore(E, E), E), E)
    IN  \A p \in paths : p[1] # p[2]

\* C32: for a structurally valid flow with an acyclic routing graph, a run
\* takes at most as many task steps as the flow has tasks and the
\* FlowExecution it returns has a terminal status.
C32_AcyclicRunEndsTerminal ==
    (validate_flow_structure(flow) /\ Acyclic(flow)) =>
       /\ sequence_number <= Len(flow.tasks)
       /\ pc = "returned" => flow_execution.status \in Terminal


\* the names of the tasks for which a TaskExecution was created
RecordedNames == {task_executions[i].task_name : i \in 1..Len(task_executions)}

\* C34: the working context starts as the input context; the step that
\* runs task T puts T's result under T, over an input entry or an earlier
\* result of T, and keeps the other entries; a step that fails to resolve
\* its task adds nothing; and a FlowExecution finalized COMPLETED has that
\* context as output_data: the input entries, except under the names of
\* tasks that ran, and entries under names of tasks only.
C34_OutputIsOverlay ==
    /\ [][ /\ pc = "running" => context' = input_context
           /\ pc = "task_running" =>
                 context' = [k \in DOMAIN context \cup {current_task_name} |->
                                IF k = current_task_name
                                THEN run(execute_outcome') ELSE context[k]]
           /\ pc = "execute_task" => context' = context
           /\ (flow_execution.status # COMPLETED
                 /\ flow_execution'.status = COMPLETED) =>
                 /\ flow_execution'.output_data = <<context>>
                 /\ context' = context ]_vars
    /\ [](flow_execution.status = COMPLETED =>
            /\ flow_execution.output_data = <<context>>
            /\ DOMAIN context \subseteq DOMAIN input_context \cup RecordedNames
            /\ \A k \in DOMAIN input_context :
                  /\ k \in DOMAIN context
                  /\ k \notin RecordedNames => context[k] = input_context[k]
            /\ \A k \in DOMAIN context :
                  k \notin DOMAIN input_context => k \in TaskNames(flow))

\* task A ran twice, failed first and succeeded then, under an input entry
\* of its name: the output holds its second result only
C34_Witness ==
    /\ pc = "returned"
    /\ exception = None
    /\ flow_execution.status = COMPLETED
    /\ "A" \in DOMAIN input_context
    /\ Len(task_executions) = 2
    /\ task_executions[1].task_name = "A"
    /\ task_executions[2].task_name = "A"
    /\ task_executions[1].status = FAILURE
    /\ task_executions[2].status = SUCCESS
    /\ flow_execution.output_data[1]["A"].status = "success"
    /\ DOMAIN flow_execution.output_data[1] = {"A"}


\* the execute request was answered 404 or 400
Rejected(r) == requests[r].pc \in {"not_found", "not_active"}

\* C38: an execute request for a flow that does not exist or whose active
\* flag is off is rejected before the engine is invoked: the step that
\* handles it changes no stored row, and the request never has a
\* FlowExecution or a TaskExecution and takes no further step.
C38_RejectedBeforeEngine ==
    /\ [][ \A r \in Requests :
             (requests[r].pc = "idle" /\ requests'[r].pc # "idle"
                /\ ("f1" \notin DOMAIN stored_flows
                      \/ stored_flows["f1"].is_active = 0)) =>
                /\ Rejected(r)'
                /\ requests'[r].pc = IF "f1" \notin DOMAIN stored_flows
                                     THEN "not_found" ELSE "not_active"
                /\ UNCHANGED <<stored_flows, flow_executions_table,
                               task_executions_table>> ]_vars
    /\ [](\A r \in Requests :
            Rejected(r) =>
               /\ requests[r].flow_execution.id = 0
               /\ requests[r].task_execution.id = 0
               /\ requests[r].context = EmptyCtx
               /\ requests[r].sequence_number = 0)
    /\ [][ \A r \in Requests :
             Rejected(r) => requests'[r] = requests[r] ]_vars

\* the first request found the flow switched off, the flow was deleted and
\* the second request did not find it; nothing was stored
C38_Witness ==
    /\ requests["r1"].pc = "not_active"
    /\ requests["r2"].pc = "not_found"
    /\ flow_executions_table = [id \in {} |-> None]
    /\ task_executions_table = [id \in {} |-> None]


\* C37: the engines resolve tasks through the one shared registry: every
\* handle reaches the same tasks, and a lookup of a run in progress is
\* answered from the registry as it is at that moment, whatever it was when
\* the flow was validated or when the run began.
C37_LookupSeesSharedRegistry ==
    /\ [](\A h \in Handles, r \in Requests :
            registry_of(h) = engine_registry(r))
    /\ [][ \A r \in Requests :
             (requests[r].pc = "execute_task"
                /\ requests'[r].pc # "execute_task") =>
                IF requests[r].current_task_name \in DOMAIN _tasks
                THEN /\ requests'[r].pc = "task_created"
                     /\ requests'[r].task_execution.task_name
                           = requests[r].current_task_name
                ELSE /\ requests'[r].pc = "count"
                     /\ requests'[r].task_result =
                           FailureResult(NotFoundInRegistry(
                              requests[r].current_task_name))
                     /\ task_executions_table' = task_executions_table
         ]_vars

\* the flow was executable with the registry of its creation; the second
\* request ran both tasks; task B was unregistered while the first request
\* was in progress, after its task A, and the run failed at B
C37_Witness ==
    /\ validate_flow_executable(ExampleFlow, DOMAIN DefaultTasks)
    /\ requests["r2"].pc = "returned"
    /\ requests["r2"].flow_execution.status = COMPLETED
    /\ Cardinality(TrailOf(requests["r2"].flow_execution.id)) = 2
    /\ requests["r1"].pc = "returned"
    /\ requests["r1"].flow_execution.status = FAILURE
    /\ requests["r1"].flow_execution.error_task = "B"
    /\ requests["r1"].flow_execution.error_message = NotFoundInRegistry("B")
    /\ Cardinality(TrailOf(requests["r1"].flow_execution.id)) = 1
    /\ requests["r1"].flow_execution.id < requests["r2"].flow_execution.id

====
